---- MODULE Spec2Model ----
(***************************************************************************)
(* Scene / asset lifecycle of 3DGSViewerV1: the SceneManager (three        *)
(* variants kept in the repository) on top of the GaussianSplatRenderer's  *)
(* serialised scene-graph mutation queue.                                  *)
(*                                                                         *)
(*   "lazy"      load first asset, preload the rest, independent toggles   *)
(*   "exclusive" load all assets, single active asset (activateSplat)      *)
(*   "eager"     load all assets, independent toggles                      *)
(*                                                                         *)
(* One action per call and per continuation after an await.  A renderer    *)
(* mutation that settles is one step together with the continuation of the *)
(* code that awaited it.                                                   *)
(***************************************************************************)
EXTENDS Integers, Sequences, FiniteSets, TLC

\* ------------------------------------------------------------------ bounds
MaxCalls == 3

\* --------------------------------------------------------- program constants
MAX_REVEAL_SCENES == 32

\* ------------------------------------------------------------------ inputs
Variants == {"lazy", "exclusive", "eager"}

\* scene ids whose scene.json is fetched and validated without error
ValidScenes == {"a", "b", "c", "d"}
\* a scene id whose configuration cannot be fetched or fails validation
BadScene == "bad"
\* the scenes of a deployment whose first asset always loads
SceneArgs == {"a", "b", "c", BadScene}
\* ... and with a scene whose first asset does not load
AllSceneArgs == ValidScenes \cup {BadScene}

\* config.assets, in declared order (asset ids); scenes are copied from one
\* another per client, so asset ids recur across scenes
Assets(s) ==
  CASE s = "a" -> <<"x", "y">>
    [] s = "b" -> <<"y", "z">>
    [] s = "c" -> <<"x", "v">>
    [] s = "d" -> <<"v", "y">>
    [] s = "e" -> <<"x", "y", "v">>
    [] OTHER   -> <<>>

\* asset.visibleDefault
VisibleDefault(id) == id \in {"x", "z"}

\* assets whose file the viewer cannot load (addSplatScene rejects)
Broken == {"v"}

\* ids a toggle may be asked for
ToggleIds == {"x", "y"}

NoHandle == [hid |-> 0, id |-> "", scene |-> ""]

\* ------------------------------------------- configuration (schema.ts)
\* the longest "assets" array drawn
MaxAssets == 6

\* assetsValue.length > 5
MAX_SPLATS == 5

\* reveal defaults; band is counted in hundredths (0.12)
DEFAULT_DURATION_MS == 2800
DEFAULT_BAND == 12

\* a JSON value where a number is expected: absent, a number that is not
\* finite (-1e999 parses to -Infinity), or a finite number v
NumberValues ==
  {[k |-> "absent", v |-> 0], [k |-> "neginf", v |-> 0]}
    \cup {[k |-> "num", v |-> n] : n \in {-1, 0, 1}}

\* isNumber: typeof value === 'number' && Number.isFinite(value)
isNumber(value) == value.k = "num"

\* the value as a JavaScript comparison with 0 sees it
GreaterThanZero(value) == value.k = "num" /\ value.v > 0

\* typeof value === 'number'
TypeofNumber(value) == value.k \in {"num", "neginf"}

\* what one entry of raw.assets is
EntryKinds == {"ok", "notObject", "noTransform", "noId"}

\* the entry of raw.assets at position i: well formed, with the id of
\* position idOf
OkEntry(idOf) == [kind |-> "ok", id |-> ToString(idOf)]

\* an entry of kind k; only a well-formed entry has an id
Entry(k, idOf) == IF k = "ok" THEN OkEntry(idOf) ELSE [kind |-> k, id |-> ""]

\* the errors one entry of the assets loop pushes
EntryErrors(e) ==
  CASE e.kind = "notObject"   -> <<"assets[index] must be an object.">>
    [] e.kind = "noTransform" -> <<"assets[index].transform must be an object.">>
    [] e.kind = "noId"        -> <<"\"id\" must be a non-empty string.">>
    [] OTHER                  -> <<>>

RECURSIVE AssetErrors(_, _)
\* for (let index = 0; index < assetsValue.length; index += 1) { ... }
AssetErrors(entries, index) ==
  IF index > Len(entries) THEN <<>>
  ELSE EntryErrors(entries[index]) \o AssetErrors(entries, index + 1)

\* variant of CapErrors: no cap on the number of assets
CapErrorsNone(entries) == <<>>

\* if (assetsValue.length > 5) errors.push(...)
CapErrors(entries) ==
  IF Len(entries) > MAX_SPLATS
    THEN <<"MVP limit exceeded: \"assets\" supports up to 5 splats.">>
    ELSE <<>>

ReadOk(ok, message) == IF ok THEN <<>> ELSE <<message>>

\* validateSceneConfig up to its first errors.length test
StructureErrors(r) ==
  ReadOk(r.id, "\"id\" must be a non-empty string.")
  \o ReadOk(r.title, "\"title\" must be a non-empty string.")
  \o (IF ~r.assets.isArray
        THEN <<"\"assets\" must be an array.">>
        ELSE CapErrors(r.assets.entries) \o AssetErrors(r.assets.entries, 1))
  \o (IF r.camera = "notObject"
        THEN <<"\"camera\" must be an object.", "\"camera.home\" must be an object.",
               "\"camera.limits\" must be an object.">>
        ELSE <<>>)
  \o ReadOk(r.ui # "notObject", "\"ui\" must be an object.")
  \o ReadOk(r.transitions # "notObject", "\"transitions\" must be an object.")
  \o ReadOk(r.reveal.kind # "notObject", "\"reveal\" must be an object when provided.")

\* revealObject = isObject(revealValue) ? revealValue : {}
RevealField(r, f) == IF r.reveal.kind = "object" THEN r.reveal[f] ELSE [k |-> "absent", v |-> 0]

\* isNumber(revealObject.durationMs) ? revealObject.durationMs : 2800
RevealDurationMs(r) ==
  IF isNumber(RevealField(r, "durationMs")) THEN RevealField(r, "durationMs").v
  ELSE DEFAULT_DURATION_MS

\* isNumber(revealObject.band) ? revealObject.band : 0.12
RevealBand(r) ==
  IF isNumber(RevealField(r, "band")) THEN RevealField(r, "band").v * 100 ELSE DEFAULT_BAND

\* the config object validateSceneConfig builds
BuildConfig(r) ==
  [assets |-> SelectSeq(r.assets.entries, LAMBDA e : e.kind \in {"ok", "noId"}),
   reveal |-> [durationMs |-> RevealDurationMs(r), band |-> RevealBand(r)]]

\* the range checks on the built config
RangeErrors(r, config) ==
  ReadOk(r.camera # "inverted",
         "\"camera.limits.maxDistance\" must be >= \"camera.limits.minDistance\".")
  \o ReadOk(~(config.reveal.durationMs <= 0), "\"reveal.durationMs\" must be > 0.")
  \o ReadOk(~(config.reveal.band <= 0), "\"reveal.band\" must be > 0.")

NoConfig == [assets |-> <<>>, reveal |-> [durationMs |-> 0, band |-> 0]]

Invalid(errors) == [ok |-> FALSE, errors |-> errors, data |-> NoConfig]

\* validateSceneConfig(raw)
validateSceneConfig(r) ==
  IF ~r.isObject THEN Invalid(<<"Scene config must be a JSON object.">>)
  ELSE IF Len(StructureErrors(r)) > 0 THEN Invalid(StructureErrors(r))
  ELSE LET config == BuildConfig(r)
           errors == ReadOk(r.camera # "badNumbers", "\"fov\" must be a number.")
                     \o RangeErrors(r, config)
       IN IF Len(errors) > 0 THEN Invalid(errors)
          ELSE [ok |-> TRUE, errors |-> <<>>, data |-> config]

\* a scene.json that is no JSON object
NotAnObject ==
  [isObject |-> FALSE, id |-> FALSE, title |-> FALSE,
   assets |-> [isArray |-> FALSE, entries |-> <<>>], camera |-> "notObject",
   ui |-> "notObject", transitions |-> "notObject",
   reveal |-> [kind |-> "absent", durationMs |-> [k |-> "absent", v |-> 0],
               band |-> [k |-> "absent", v |-> 0]]]

\* "assets" arrays of up to MaxAssets entries: with at most one defective
\* entry and distinct ids, or well formed with one entry repeating the id of
\* an earlier one
EntryLists ==
  {[i \in 1..n |-> Entry(IF i = b THEN k ELSE "ok", i)] :
     n \in 0..MaxAssets, b \in 0..MaxAssets, k \in EntryKinds}
    \cup {[i \in 1..n |-> OkEntry(IF i = d THEN e ELSE i)] :
            n \in 2..MaxAssets, d \in 2..MaxAssets, e \in 1..MaxAssets}

RevealValues ==
  {[kind |-> kd, durationMs |-> [k |-> "absent", v |-> 0], band |-> [k |-> "absent", v |-> 0]] :
     kd \in {"absent", "notObject"}}
    \cup {[kind |-> "object", durationMs |-> d, band |-> b] :
            d \in NumberValues, b \in NumberValues}

\* the values validateSceneConfig is applied to
RawConfigs ==
  {NotAnObject}
    \cup [isObject : {TRUE}, id : BOOLEAN, title : BOOLEAN,
          assets : {[isArray |-> FALSE, entries |-> <<>>]}
                     \cup {[isArray |-> TRUE, entries |-> es] : es \in EntryLists},
          camera : {"ok", "notObject", "badNumbers", "inverted"},
          ui : {"ok", "notObject"}, transitions : {"ok", "notObject"},
          reveal : RevealValues]

NoValidation == [raw |-> NotAnObject, done |-> FALSE, result |-> Invalid(<<>>)]

\* ------------------------------------------------------------ error values
MkError(name, message, details) == [name |-> name, message |-> message, details |-> details]

NoError == MkError("", "", <<>>)

\* new SceneConfigError(message, details)
SceneConfigError(message, details) == MkError("SceneConfigError", message, details)

\* new SceneLoadError(message, details = [])
SceneLoadError(message, details) == MkError("SceneLoadError", message, details)

\* the scene.json served for scene id s: the one of BadScene lists one asset
\* more than the validator allows
RawOf(s) ==
  [isObject |-> TRUE, id |-> TRUE, title |-> TRUE,
   assets |-> [isArray |-> TRUE,
               entries |-> IF s = BadScene THEN [i \in 1..(MAX_SPLATS + 1) |-> OkEntry(i)]
                           ELSE [i \in DOMAIN Assets(s) |->
                                   [kind |-> "ok", id |-> Assets(s)[i]]]],
   camera |-> "ok", ui |-> "ok", transitions |-> "ok",
   reveal |-> [kind |-> "absent", durationMs |-> [k |-> "absent", v |-> 0],
               band |-> [k |-> "absent", v |-> 0]]]

\* variant of loadSceneConfig: every scene.json is accepted
loadSceneConfigAlwaysOk(s) == [ok |-> TRUE, error |-> NoError]

\* loadSceneConfig(sceneId): the configuration, or the SceneConfigError thrown
loadSceneConfig(s) ==
  LET v == validateSceneConfig(RawOf(s))
  IN IF v.ok THEN [ok |-> TRUE, error |-> NoError]
     ELSE [ok |-> FALSE,
           error |-> SceneConfigError("Scene config validation failed.", v.errors)]

\* ------------------------------------------------------- reveal animator
\* (SplatRevealController; heights in units, planes and progress in thousandths)
\* policy.durationMs has a floor of 100 ms
MIN_DURATION_MS == 100

\* the frame-to-frame times of the animation loop, in ms
FrameTimes == {40, 70}

\* VerticalBounds {minY, maxY} of a handle
BoundsValues == {[minY |-> 0, maxY |-> 2], [minY |-> 1, maxY |-> 3]}

\* RevealConfig as validated: enabled, durationMs > 0, ease and the paddings
Policies ==
  [enabled : BOOLEAN, durationMs : {50, 160}, ease : {"linear", "easeInOut"},
   startPadding : {0, 1}, endPadding : {0, 1}]

\* the duration the sweep runs over
Duration(policy) ==
  IF policy.durationMs < MIN_DURATION_MS THEN MIN_DURATION_MS ELSE policy.durationMs

\* progress t in thousandths: elapsed / duration, clamped to 1
Progress(elapsed, policy) ==
  IF elapsed >= Duration(policy) THEN 1000 ELSE (elapsed * 1000) \div Duration(policy)

\* variant of Ease: the second half of the cubic stops short of 1
EaseShort(t, ease) ==
  IF ease = "linear" THEN t
  ELSE IF t < 500 THEN (4 * t * t * t) \div 1000000
  ELSE 999 - (((2000 - 2 * t) * (2000 - 2 * t) * (2000 - 2 * t)) \div 2000000)

\* linear: identity; easeInOut: t < 0.5 ? 4t^3 : 1 - ((-2t + 2)^3) / 2
Ease(t, ease) ==
  IF ease = "linear" THEN t
  ELSE IF t < 500 THEN (4 * t * t * t) \div 1000000
  ELSE 1000 - (((2000 - 2 * t) * (2000 - 2 * t) * (2000 - 2 * t)) \div 2000000)

\* the plane the sweep starts from and the one it ends at
SweepFrom(dir, bounds, policy) ==
  IF dir = "in" THEN bounds.minY + policy.startPadding ELSE bounds.maxY + policy.endPadding

SweepTo(dir, bounds, policy) ==
  IF dir = "in" THEN bounds.maxY + policy.endPadding ELSE bounds.minY + policy.startPadding

\* the plane of the frame at progress t, in thousandths of a unit
PlaneAt(dir, bounds, policy, t) ==
  1000 * SweepFrom(dir, bounds, policy)
    + (SweepTo(dir, bounds, policy) - SweepFrom(dir, bounds, policy)) * Ease(t, policy.ease)

\* handle.setRevealParams({enabled, revealY, ...}) as last applied
Params(enabled, revealY) == [set |-> TRUE, enabled |-> enabled, revealY |-> revealY]

NoParams == [set |-> FALSE, enabled |-> FALSE, revealY |-> 0]

NoAnim ==
  [dir |-> "none", bounds |-> [minY |-> 0, maxY |-> 2],
   policy |-> [enabled |-> FALSE, durationMs |-> 50, ease |-> "linear",
               startPadding |-> 0, endPadding |-> 0],
   st |-> "idle", elapsed |-> 0, applied |-> NoParams, frames |-> 0, n |-> 0]

VARIABLES
  variant,        \* which SceneManager of the repository is running
  opVersion,      \* SceneManager.opVersion
  activeConfig,   \* SceneManager.activeConfig: a scene id, or "none"
  activeHandles,  \* SceneManager.activeHandles: sequence of handles
  handleById,     \* SceneManager.handleById: id -> handle (lazy, exclusive)
  loadingById,    \* SceneManager.loadingById: id -> index into loads (lazy)
  activeAssets,   \* SceneManager.activeAssets: scene whose assets are current (lazy)
  itemsGen,       \* identity of the array SceneManager.activeItems
  itemStore,      \* item arrays still referenced: itemsGen and captured items
  currentActiveId,\* SceneManager.currentActiveId (exclusive), "" for null
  calls,          \* the calls issued so far and where each one is suspended
  pre,            \* preloadRemainingAssets started by call p (lazy)
  loads,          \* the load promises ensureHandleLoaded has created (lazy)
  rViewer,        \* GaussianSplatRenderer.viewer # null
  rHandles,       \* GaussianSplatRenderer.handles (object3D.visible inside)
  rSceneIdOrder,  \* GaussianSplatRenderer.sceneIdOrder
  rq,             \* GaussianSplatRenderer.sceneMutationQueue: queued bodies
  nextHid,        \* identity of the next handle object created
  validation,     \* a value handed to validateSceneConfig and what it returned
  anim,           \* the n-th revealIn/revealOut of the reveal animator and its handle
  fade,           \* handles swept out by a resolved revealOut, and the revealOuts awaited
  sm,             \* GaussianSplatRenderer.sceneGraphMutating and the runs of withSceneMutation
  vw,             \* Viewer.activeSceneId and Viewer.activeConfig
  out             \* events emitted and collaborator calls made by the last step

vars == <<variant, opVersion, activeConfig, activeHandles, handleById,
          loadingById, activeAssets, itemsGen, itemStore, currentActiveId,
          calls, pre, loads, rViewer, rHandles, rSceneIdOrder, rq, nextHid,
          validation, anim, fade, sm, vw, out>>

Procs == 1..MaxCalls

\* ------------------------------------------------------------------ helpers
Range(s) == {s[i] : i \in DOMAIN s}

SeqMap(Op(_), s) == [i \in DOMAIN s |-> Op(s[i])]

\* index of the first element of s whose id is id, 0 if none (Array.find)
FindIdx(s, id) ==
  IF \E i \in DOMAIN s : s[i].id = id
    THEN CHOOSE i \in DOMAIN s : s[i].id = id /\ \A j \in 1..(i-1) : s[j].id # id
    ELSE 0

items == itemStore[itemsGen]

\* SceneManager.getSplatItems
getSplatItems == items

\* the item object with this id in the array with identity g
ItemOf(g, id) ==
  IF g \in DOMAIN itemStore /\ FindIdx(itemStore[g], id) # 0
    THEN itemStore[g][FindIdx(itemStore[g], id)]
    ELSE [id |-> "", visible |-> FALSE, loaded |-> FALSE, failed |-> FALSE]

HasItem(g, id) == g \in DOMAIN itemStore /\ FindIdx(itemStore[g], id) # 0

\* item.visible = v on the item object id of array its
SetItemVisible(its, id, v) ==
  [i \in DOMAIN its |-> IF i = FindIdx(its, id) THEN [its[i] EXCEPT !.visible = v] ELSE its[i]]

\* variant of SetItemLoaded: the load state is not recorded on the item
SetItemLoadedNone(its, id, l, f) == its

\* item.loaded = l; item.failed = f on the item object id of array its
SetItemLoaded(its, id, l, f) ==
  [i \in DOMAIN its |->
     IF i = FindIdx(its, id) THEN [its[i] EXCEPT !.loaded = l, !.failed = f] ELSE its[i]]

\* the item arrays that stay reachable: the current one and those a pending
\* call still holds an item of
KeepStore(store, gen, cs) ==
  LET live == {gen} \cup {cs[p].gen : p \in {q \in Procs : cs[q].pc \notin {"idle", "done"}}}
  IN [g \in (DOMAIN store) \cap live |-> store[g]]

EmptyMap == [i \in {} |-> NoHandle]

MapPut(m, k, v) == [i \in (DOMAIN m) \cup {k} |-> IF i = k THEN v ELSE m[i]]

MapDel(m, k) == [i \in (DOMAIN m) \ {k} |-> m[i]]

\* one emitted event or collaborator call
Ev(t, id, n) == [t |-> t, id |-> id, n |-> n]

\* Viewer: activeSceneId = '', activeConfig = null
NoViewerState == [activeSceneId |-> "", activeConfig |-> "none"]

\* sceneGraphMutating = false, sceneMutationQueue = Promise.resolve()
NoMutation == [mutating |-> FALSE, runs |-> <<>>]

\* no handle is swept out, no call awaits a revealOut
NoFade == [done |-> {}, wait |-> [p \in Procs |-> {}]]

\* the pcs at which a call awaits revealOut promises
AwaitsRevealOut == {"dissolve", "hide", "xout"}

\* the handles the collaborator calls evs start a revealOut on
RevealOutsOf(evs) == {evs[i].n : i \in {j \in DOMAIN evs : evs[j].t = "revealOut"}}

\* the handles the collaborator calls evs show or start a revealIn on
ShownBy(evs) ==
  {evs[i].n : i \in {j \in DOMAIN evs : evs[j].t \in {"setVisibleT", "revealIn"}}}

\* the calls whose awaited revealOut promises resolve in this step
ResumeAfterRevealOut ==
  {p \in Procs : calls[p].pc \in AwaitsRevealOut /\ calls'[p].pc # calls[p].pc}

\* the handles whose revealOut has resolved by the end of this step
SweptOut == fade.done \cup UNION {fade.wait[p] : p \in ResumeAfterRevealOut}

\* what the reveal controller did to the handles in this step: a revealOut a
\* call starts is awaited by it, it has resolved when the call resumes, and a
\* handle shown again is no longer swept out
FadeStep ==
  fade' =
    [done |-> (SweptOut \ ShownBy(out')) \cap {rHandles'[i].hid : i \in DOMAIN rHandles'},
     wait |-> [p \in Procs |->
                 IF calls'[p] # calls[p] /\ RevealOutsOf(out') # {}
                   THEN RevealOutsOf(out')
                 ELSE IF p \in ResumeAfterRevealOut THEN {}
                 ELSE fade.wait[p]]]

\* the loadScene calls whose promise fulfilled in this step
Fulfilled ==
  {p \in Procs : /\ calls'[p].kind = "loadScene"
                 /\ calls[p].pc # "done" /\ calls'[p].pc = "done"
                 /\ calls'[p].res \notin {"errConfig", "errAssets", "err"}}

\* this.activeSceneId = sceneId of Viewer.loadScene: the id it was called with
RequestedSceneId(p) == calls'[p].scene

\* Viewer.loadScene resumed after `await this.sceneManager.loadScene(sceneId)`:
\* it stores the configuration it got and the scene id it was called with; a
\* rejected call goes to the catch block and stores nothing. Viewer.dispose
\* drops its configuration when it disposes the manager
ViewerStep ==
  IF Fulfilled # {}
    THEN LET p == CHOOSE q \in Fulfilled : TRUE
         IN vw' = [activeSceneId |-> RequestedSceneId(p), activeConfig |-> calls'[p].res]
  ELSE IF \E p \in Procs : calls[p].pc = "idle" /\ calls'[p].kind = "dispose"
    THEN vw' = [vw EXCEPT !.activeConfig = "none"]
  ELSE vw' = vw

\* the call issued just before call p has not resolved yet
PrevPending(p) == p > 1 /\ calls[p - 1].pc # "done"

IdleCall == [kind |-> "none", pc |-> "idle", scene |-> "", id |-> "", want |-> FALSE,
             ver |-> 0, res |-> "", wait |-> 0, gen |-> 0, h |-> NoHandle,
             queued |-> FALSE, ov |-> FALSE, err |-> NoError]

\* variant of NextVersion: the counter is left where it is
NextVersionSame == opVersion

\* this.opVersion += 1
NextVersion == opVersion + 1

\* the next call slot: calls are numbered in the order they are issued
IsNext(p) == calls[p].pc = "idle" /\ \A q \in 1..(p-1) : calls[q].pc # "idle"

Finish(c, r) == [c EXCEPT !.pc = "done", !.res = r]

\* the call rejects with the error e
Throw(c, r, e) == [c EXCEPT !.pc = "done", !.res = r, !.err = e]

\* catch (error) { throw new SceneLoadError(error.message) } around the
\* awaited loadSceneConfig
WrapConfigError(error) == SceneLoadError(error.message, <<>>)

\* catch (error) { throw new SceneLoadError('Unable to load scene assets.',
\* [message]) } around the asset loading
WrapAssetError(message) == SceneLoadError("Unable to load scene assets.", <<message>>)

BoolRes(b) == IF b THEN "T" ELSE "F"

\* config.assets.map(...) of loadScene: the fresh item array
NewItemsFirstVisible(s, isLoaded) ==
  [i \in DOMAIN Assets(s) |->
     [id |-> Assets(s)[i], visible |-> (i = 1), loaded |-> isLoaded, failed |-> FALSE]]

NewItemsDefaultVisible(s) ==
  [i \in DOMAIN Assets(s) |->
     [id |-> Assets(s)[i], visible |-> VisibleDefault(Assets(s)[i]), loaded |-> TRUE,
      failed |-> FALSE]]

\* a caller whose awaited ensureHandleLoaded promise has settled: its
\* continuation is a queued microtask
AwaitedLoadSettled(p) ==
  \/ calls[p].pc \in {"first", "tload"} /\ loads[calls[p].wait].st # "pending"
  \/ pre[p].st = "wait" /\ loads[pre[p].wait].st # "pending"

NoContinuation == \A p \in Procs : ~AwaitedLoadSettled(p)

\* a renderer call that did not reach the mutation queue (clear and dispose
\* return at once without a viewer, loadSplats throws at once): the caller
\* resumes in a microtask
Immediate(p) == calls[p].pc \in {"clear", "splats", "disp"} /\ ~calls[p].queued

ImmediateLoad(k) == loads[k].st = "pending" /\ ~loads[k].queued

\* without a viewer every queued body fails in its first statement: the queue
\* runs out in microtasks
QueueDrains == rq # <<>> /\ ~rViewer

\* timers, network replies, viewer work and calls from the user interface are
\* tasks: one runs only when no microtask is queued
NoMicrotask ==
  /\ NoContinuation
  /\ \A p \in Procs : ~Immediate(p)
  /\ \A k \in DOMAIN loads : ~ImmediateLoad(k)
  /\ ~QueueDrains

\* a renderer call may settle now: at once when it was not queued or the
\* queue is running out, as a task otherwise
MaySettle(queued) == NoContinuation /\ (~queued \/ QueueDrains \/ NoMicrotask)

\* ---------------------------------------------------------------- renderer
\* GaussianSplatRenderer.setVisible: the first handle with this id
RendererSetVisible(rh, id, v) ==
  [i \in DOMAIN rh |-> IF i = FindIdx(rh, id) THEN [rh[i] EXCEPT !.visible = v] ELSE rh[i]]

\* asset.src of each asset, character by character; x, y, z and v name files
\* of a supported format, u, n and q do not
SrcChars(id) ==
  CASE id = "y" -> <<"y", ".", "S", "P", "Z", "?", "v", "=", "1", ".", "0">>
    [] id = "v" -> <<"v", ".", "s", "p", "l", "a", "t">>
    [] id = "z" -> <<"z", ".", "k", "s", "p", "l", "a", "t", "#", "t", "o", "p">>
    [] id = "u" -> <<"u", ".", "o", "b", "j">>
    [] id = "n" -> <<"n", "o", "e", "x", "t">>
    [] id = "q" -> <<"q", ".", "z", "i", "p", "#", ".", "p", "l", "y">>
    [] OTHER    -> <<id, ".", "p", "l", "y">>

RECURSIVE BeforeFirst(_, _)
\* path.split(c)[0]
BeforeFirst(path, c) ==
  IF path = <<>> \/ Head(path) = c THEN <<>>
  ELSE <<Head(path)>> \o BeforeFirst(Tail(path), c)

\* clean.lastIndexOf(c), counted from 1; 0 when c does not occur
LastIndexOf(path, c) ==
  IF \E i \in DOMAIN path : path[i] = c
    THEN CHOOSE i \in DOMAIN path : path[i] = c /\ \A j \in (i+1)..Len(path) : path[j] # c
    ELSE 0

\* toLowerCase on one character
ToLowerCase(c) ==
  CASE c = "S" -> "s" [] c = "P" -> "p" [] c = "Z" -> "z" [] OTHER -> c

RECURSIVE Join(_)
\* the string made of the characters of path
Join(path) == IF path = <<>> THEN "" ELSE Head(path) \o Join(Tail(path))

\* getAssetExtension returning null
NoExtension == ""

\* getAssetExtension(path)
getAssetExtension(path) ==
  LET clean    == BeforeFirst(BeforeFirst(path, "?"), "#")
      dotIndex == LastIndexOf(clean, ".")
  IN IF dotIndex = 0 THEN NoExtension
     ELSE Join(SeqMap(ToLowerCase, SubSeq(clean, dotIndex, Len(clean))))

SUPPORTED_EXTENSIONS == <<".ply", ".splat", ".ksplat", ".spz">>

\* the assets of the scenes and of the batches handed to the renderer
SrcIds == {"x", "y", "z", "v", "u", "n", "q"}

\* getAssetExtension(asset.src) of every asset
ExtensionOf == [id \in SrcIds |-> getAssetExtension(SrcChars(id))]

\* !extension || !SUPPORTED_EXTENSIONS.includes(extension)
Unsupported(id) ==
  \/ ExtensionOf[id] = NoExtension
  \/ ExtensionOf[id] \notin Range(SUPPORTED_EXTENSIONS)

\* variant of HasUnsupported: every format passes
HasUnsupportedNever(ids) == FALSE

\* ensureSupportedAssetFormats(assets) throws
HasUnsupported(ids) == \E i \in DOMAIN ids : Unsupported(ids[i])

\* the asset at which the loop of ensureSupportedAssetFormats throws
FirstUnsupported(ids) ==
  ids[CHOOSE i \in DOMAIN ids :
        Unsupported(ids[i]) /\ \A j \in 1..(i-1) : ~Unsupported(ids[j])]

\* the message of the Error ensureSupportedAssetFormats throws for asset id
UnsupportedFormatMessage(id) ==
  "Unsupported asset format for \"" \o Join(SrcChars(id))
    \o "\". Supported formats: .ply, .splat, .ksplat, .spz."

\* GaussianSplatRenderer.loadSplats before it queues: TRUE when it throws
LoadSplatsThrows(ids, order) ==
  \/ ~rViewer
  \/ (Len(ids) > 0 /\ Len(order) + Len(ids) > MAX_REVEAL_SCENES)
  \/ HasUnsupported(ids)

\* the TypeError of a queued body that dereferences the viewer after dispose
NullViewerMessage == "Cannot read properties of null."

\* buildAssetLoadErrorMessage(assets, error)
AssetLoadErrorMessage(ids) ==
  IF Len(ids) = 1 THEN "Failed to load splat asset."
  ELSE "Failed to load one or more splat assets."

\* the message of the Error a failed loadSplats(ids) rejects with; queued
\* tells whether the call had reached the mutation queue
LoadSplatsMessage(ids, queued) ==
  IF ~rViewer THEN "Renderer not initialized."
  ELSE IF ~queued /\ ~HasUnsupported(ids)
    THEN "Reveal system supports up to 32 loaded splat handles."
  ELSE IF ~queued THEN UnsupportedFormatMessage(FirstUnsupported(ids))
  ELSE AssetLoadErrorMessage(ids)

\* the message loadSplats(ids) throws with before it queues, by the order of
\* its checks
LoadSplatsThrownMessage(ids, order) ==
  IF ~rViewer THEN "Renderer not initialized."
  ELSE IF Len(order) + Len(ids) > MAX_REVEAL_SCENES
    THEN "Reveal system supports up to 32 loaded splat handles."
  ELSE UnsupportedFormatMessage(FirstUnsupported(ids))

\* GaussianSplatRenderer.loadAssetsWithViewer: TRUE when the viewer load rejects
ViewerLoadFails(ids) == ~rViewer \/ \E i \in DOMAIN ids : ids[i] \in Broken

\* GaussianSplatRenderer.createSplatHandle for each asset of a settled load
NewRendererHandles(ids, s) ==
  [i \in DOMAIN ids |->
     [hid |-> nextHid + i - 1, id |-> ids[i], scene |-> s, visible |-> VisibleDefault(ids[i])]]

AsHandle(rhe) == [hid |-> rhe.hid, id |-> rhe.id, scene |-> rhe.scene]

\* GaussianSplatRenderer.withSceneMutation: the queued body that runs next
HeadIs(op, who) == rq # <<>> /\ Head(rq).op = op /\ Head(rq).who = who

Req(op, who) == [op |-> op, who |-> who]

\* GaussianSplatRenderer.clear as called: queued unless there is no viewer
ClearRequest(p) == IF rViewer THEN Append(rq, Req("clear", p)) ELSE rq

\* ------------------------------------------------- SceneManager.loadScene
\* loadScene(sceneId) up to the await of loadSceneConfig
CallLoadScene(p, s) ==
  /\ IsNext(p) /\ NoMicrotask
  /\ opVersion' = NextVersion
  /\ calls' = [calls EXCEPT ![p] =
       [IdleCall EXCEPT !.kind = "loadScene", !.pc = "cfg", !.scene = s,
                        !.ver = NextVersion, !.ov = PrevPending(p)]]
  /\ out' = <<Ev("loading", "configuration", p)>>
  /\ UNCHANGED <<sm, anim, validation, variant, activeConfig, activeHandles, handleById, loadingById,
                 activeAssets, itemsGen, itemStore, currentActiveId, pre, loads,
                 rViewer, rHandles, rSceneIdOrder, rq, nextHid>>
  /\ FadeStep
  /\ ViewerStep

\* the reveal-outs started with the defaults, whatever configuration is active
DissolveCallsDefaults ==
  [i \in DOMAIN activeHandles |-> Ev("revealOut", "none", activeHandles[i].hid)]

\* the reveal-outs of the previous scene's handles, with the previous policy
DissolveCalls ==
  [i \in DOMAIN activeHandles |-> Ev("revealOut", activeConfig, activeHandles[i].hid)]

\* loadSceneConfig settled: reject, or dissolve the current scene, or clear
LoadSceneConfigDone(p) ==
  /\ calls[p].kind = "loadScene" /\ calls[p].pc = "cfg" /\ NoMicrotask
  /\ IF ~loadSceneConfig(calls[p].scene).ok
       THEN /\ calls' = [calls EXCEPT ![p] =
                 Throw(@, "errConfig", WrapConfigError(loadSceneConfig(calls[p].scene).error))]
            /\ out' = <<Ev("reject", "config", p)>>
            /\ rq' = rq
       ELSE IF Len(activeHandles) > 0
         THEN /\ calls' = [calls EXCEPT ![p].pc = "dissolve"]
              /\ out' = <<Ev("loading", "dissolving", p)>> \o DissolveCalls
              /\ rq' = rq
         ELSE /\ calls' = [calls EXCEPT ![p].pc = "clear", ![p].queued = rViewer]
              /\ out' = <<Ev("loading", "assets", p), Ev("clear", "", p)>>
              /\ rq' = ClearRequest(p)
  /\ itemStore' = KeepStore(itemStore, itemsGen, calls')
  /\ UNCHANGED <<sm, anim, validation, variant, opVersion, activeConfig, activeHandles, handleById,
                 loadingById, activeAssets, itemsGen, currentActiveId, pre, loads,
                 rViewer, rHandles, rSceneIdOrder, nextHid>>
  /\ FadeStep
  /\ ViewerStep

\* a continuation that announces the dissolve once more instead of the assets
LoadSceneDissolveDoneAgain(p) ==
  /\ calls[p].kind = "loadScene" /\ calls[p].pc = "dissolve" /\ NoMicrotask
  /\ calls' = [calls EXCEPT ![p].pc = "clear", ![p].queued = rViewer]
  /\ out' = <<Ev("loading", "dissolving", p), Ev("clear", "", p)>>
  /\ rq' = ClearRequest(p)
  /\ UNCHANGED <<sm, anim, validation, variant, opVersion, activeConfig, activeHandles, handleById,
                 loadingById, activeAssets, itemsGen, itemStore, currentActiveId, pre,
                 loads, rViewer, rHandles, rSceneIdOrder, nextHid>>
  /\ FadeStep
  /\ ViewerStep

\* the Promise.all of the reveal-outs settled: ask the renderer to clear
LoadSceneDissolveDone(p) ==
  /\ calls[p].kind = "loadScene" /\ calls[p].pc = "dissolve" /\ NoMicrotask
  /\ calls' = [calls EXCEPT ![p].pc = "clear", ![p].queued = rViewer]
  /\ out' = <<Ev("loading", "assets", p), Ev("clear", "", p)>>
  /\ rq' = ClearRequest(p)
  /\ UNCHANGED <<sm, anim, validation, variant, opVersion, activeConfig, activeHandles, handleById,
                 loadingById, activeAssets, itemsGen, itemStore, currentActiveId, pre,
                 loads, rViewer, rHandles, rSceneIdOrder, nextHid>>
  /\ FadeStep
  /\ ViewerStep

\* renderer.clear() of call p is the mutation that settles now
ClearSettles(p) ==
  /\ calls[p].kind = "loadScene" /\ calls[p].pc = "clear" /\ MaySettle(calls[p].queued)
  /\ calls[p].queued => HeadIs("clear", p)

\* the queued body of clear throws at viewer!.forceRenderNextFrame() when a
\* dispose queued before it has dropped the viewer
ClearThrows(p) == calls[p].queued /\ ~rViewer

RqAfter(p) == IF calls[p].queued THEN Tail(rq) ELSE rq

HandlesAfterClear(p) == IF calls[p].queued THEN <<>> ELSE rHandles

OrderAfterClear(p) == IF calls[p].queued THEN <<>> ELSE rSceneIdOrder

\* return this.activeConfig ?? config
ActiveOrOwn(p) == IF activeConfig # "none" THEN activeConfig ELSE calls[p].scene

\* variant of StaleAfterClear: the check after the awaited clear is missing
StaleAfterClearNever(p) == FALSE

\* variant of StaleAfterClear: every load counts as superseded after the clear
StaleAfterClearAlways(p) == TRUE

\* loadVersion !== this.opVersion after the awaited clear
StaleAfterClear(p) == calls[p].ver # opVersion

\* clear settled for a call that is abandoned: it throws, or it is stale
LoadSceneClearAbandon(p) ==
  /\ ClearSettles(p)
  /\ ClearThrows(p) \/ StaleAfterClear(p)
  /\ calls' = [calls EXCEPT ![p] =
       IF ClearThrows(p) THEN Throw(@, "errAssets", WrapAssetError(NullViewerMessage))
       ELSE Finish(@, ActiveOrOwn(p))]
  /\ out' = IF ClearThrows(p) THEN <<Ev("reject", "assets", p)>> ELSE <<>>
  /\ rq' = RqAfter(p)
  /\ rHandles' = HandlesAfterClear(p)
  /\ rSceneIdOrder' = OrderAfterClear(p)
  /\ itemStore' = KeepStore(itemStore, itemsGen, calls')
  /\ UNCHANGED <<sm, anim, validation, variant, opVersion, activeConfig, activeHandles, handleById,
                 loadingById, activeAssets, itemsGen, currentActiveId, pre, loads,
                 rViewer, nextHid>>
  /\ FadeStep
  /\ ViewerStep

\* ------------------------------------------- lazy: ensureHandleLoaded
\* ensureHandleLoaded creating a load promise: renderer.loadSplat(asset) is
\* called (queued unless it throws at once) and the promise is registered
EnsureNew(id, ver, scn, lds, q, lmap, order) ==
  LET thr == LoadSplatsThrows(<<id>>, order)
      k   == Len(lds) + 1
  IN [loads |-> Append(lds, [id |-> id, scene |-> scn, ver |-> ver, st |-> "pending",
                             h |-> NoHandle, queued |-> ~thr]),
      rq |-> IF thr THEN q ELSE Append(q, Req("load", k)),
      loadingById |-> MapPut(lmap, id, k),
      wait |-> k]

\* the async body of the load promise k after renderer.loadSplat settled
LoadSettle(k) ==
  /\ variant = "lazy"
  /\ k \in DOMAIN loads /\ loads[k].st = "pending" /\ MaySettle(loads[k].queued)
  /\ loads[k].queued => HeadIs("load", k)
  /\ LET L     == loads[k]
         fails == ~L.queued \/ ViewerLoadFails(<<L.id>>)
         rhNew == NewRendererHandles(<<L.id>>, L.scene)[1]
         stale == L.ver # opVersion
         found == FindIdx(items, L.id) # 0
     IN /\ rq' = IF L.queued THEN Tail(rq) ELSE rq
        /\ loadingById' = MapDel(loadingById, L.id)
        /\ IF fails
             THEN /\ loads' = [loads EXCEPT ![k].st = "null"]
                  /\ itemStore' = [itemStore EXCEPT ![itemsGen] =
                                     SetItemLoaded(@, L.id, FALSE, TRUE)]
                  /\ out' = IF found THEN <<Ev("items", L.id, k)>> ELSE <<>>
                  /\ UNCHANGED <<handleById, activeHandles, rHandles, rSceneIdOrder,
                                 nextHid>>
             ELSE /\ rSceneIdOrder' = Append(rSceneIdOrder, L.id)
                  /\ nextHid' = nextHid + 1
                  /\ IF stale
                       THEN /\ loads' = [loads EXCEPT ![k].st = "null"]
                            /\ rHandles' = Append(rHandles, rhNew)
                            /\ out' = <<>>
                            /\ UNCHANGED <<handleById, activeHandles, itemStore>>
                       ELSE /\ loads' = [loads EXCEPT ![k].st = "ok",
                                                      ![k].h = AsHandle(rhNew)]
                            /\ handleById' = MapPut(handleById, L.id, AsHandle(rhNew))
                            /\ activeHandles' = Append(activeHandles, AsHandle(rhNew))
                            /\ rHandles' = RendererSetVisible(Append(rHandles, rhNew),
                                                              L.id, FALSE)
                            /\ itemStore' = [itemStore EXCEPT ![itemsGen] =
                                               SetItemLoaded(@, L.id, TRUE, FALSE)]
                            /\ out' = <<Ev("setVisibleF", L.id, rhNew.hid),
                                        Ev("revealStart", L.id, rhNew.hid)>>
                                      \o (IF found THEN <<Ev("items", L.id, k)>> ELSE <<>>)
  /\ UNCHANGED <<sm, anim, validation, variant, opVersion, activeConfig, activeAssets, itemsGen,
                 currentActiveId, calls, pre, rViewer>>
  /\ FadeStep
  /\ ViewerStep

\* ------------------------------------- lazy: loadScene after the clear
LoadSceneClearDoneLazy(p) ==
  /\ variant = "lazy"
  /\ ClearSettles(p) /\ ~ClearThrows(p) /\ ~StaleAfterClear(p)
  /\ LET s == calls[p].scene
         e == EnsureNew(Assets(s)[1], calls[p].ver, s, loads, RqAfter(p), EmptyMap,
                        OrderAfterClear(p))
     IN /\ handleById' = EmptyMap
        /\ loadingById' = e.loadingById
        /\ activeAssets' = s
        /\ activeHandles' = <<>>
        /\ itemsGen' = itemsGen + 1
        /\ calls' = [calls EXCEPT ![p].pc = "first", ![p].wait = e.wait]
        /\ itemStore' = KeepStore(MapPut(itemStore, itemsGen + 1,
                                         NewItemsFirstVisible(s, FALSE)),
                                  itemsGen + 1, calls')
        /\ loads' = e.loads
        /\ rq' = e.rq
        /\ out' = <<Ev("items", s, p), Ev("loadSplat", Assets(s)[1], e.wait)>>
  /\ rHandles' = HandlesAfterClear(p)
  /\ rSceneIdOrder' = OrderAfterClear(p)
  /\ UNCHANGED <<sm, anim, validation, variant, opVersion, activeConfig, currentActiveId, pre, rViewer, nextHid>>
  /\ FadeStep
  /\ ViewerStep

\* preloadRemainingAssets: the first index from j on at which the loop has to
\* wait for a load, 0 when the loop ends (end of list, or version moved)
\* a loop that looks neither at the version nor past one loaded asset
PreloadTargetAnyVersion(j, ver) ==
  IF j > Len(Assets(activeAssets)) THEN 0
  ELSE IF Assets(activeAssets)[j] \in DOMAIN handleById /\ j < Len(Assets(activeAssets))
    THEN j + 1
  ELSE j

RECURSIVE PreloadTarget(_, _)
PreloadTarget(j, ver) ==
  IF j > Len(Assets(activeAssets)) THEN 0
  ELSE IF ver # opVersion THEN 0
  ELSE IF Assets(activeAssets)[j] \in DOMAIN handleById THEN PreloadTarget(j + 1, ver)
  ELSE j

NoPre == [st |-> "off", j |-> 0, wait |-> 0]

\* preloadRemainingAssets from index j: what it registers before it awaits
PreloadPlan(j, ver) ==
  LET t  == PreloadTarget(j, ver)
      id == Assets(activeAssets)[t]
  IN IF t = 0
       THEN [pre |-> [st |-> "end", j |-> 0, wait |-> 0], loads |-> loads, rq |-> rq,
             loadingById |-> loadingById, out |-> <<>>]
     ELSE IF id \in DOMAIN loadingById
       THEN [pre |-> [st |-> "wait", j |-> t, wait |-> loadingById[id]], loads |-> loads,
             rq |-> rq, loadingById |-> loadingById, out |-> <<>>]
     ELSE LET e == EnsureNew(id, ver, activeAssets, loads, rq, loadingById, rSceneIdOrder)
          IN [pre |-> [st |-> "wait", j |-> t, wait |-> e.wait], loads |-> e.loads,
              rq |-> e.rq, loadingById |-> e.loadingById,
              out |-> <<Ev("loadSplat", id, e.wait)>>]

\* loadScene after ensureHandleLoaded(first): show it, become active, ready,
\* start the preload, return the configuration
LoadSceneFirstDone(p) ==
  /\ variant = "lazy"
  /\ calls[p].kind = "loadScene" /\ calls[p].pc = "first"
  /\ loads[calls[p].wait].st # "pending"
  /\ LET s     == calls[p].scene
         L     == loads[calls[p].wait]
         plan  == PreloadPlan(2, calls[p].ver)
     IN /\ rHandles' = IF L.st = "ok" THEN RendererSetVisible(rHandles, L.id, TRUE)
                                      ELSE rHandles
        /\ activeConfig' = s
        /\ calls' = [calls EXCEPT ![p] = Finish(@, s)]
        /\ pre' = [pre EXCEPT ![p] = plan.pre]
        /\ loads' = plan.loads
        /\ rq' = plan.rq
        /\ loadingById' = plan.loadingById
        /\ out' = (IF L.st = "ok"
                     THEN <<Ev("setVisibleT", L.id, L.h.hid), Ev("revealStart", L.id, L.h.hid)>>
                     ELSE <<>>)
                  \o <<Ev("ready", s, p)>> \o plan.out
  /\ itemStore' = KeepStore(itemStore, itemsGen, calls')
  /\ UNCHANGED <<sm, anim, validation, variant, opVersion, activeHandles, handleById, activeAssets, itemsGen,
                 currentActiveId, rViewer, rSceneIdOrder, nextHid>>
  /\ FadeStep
  /\ ViewerStep

\* preloadRemainingAssets resumed after its awaited load settled
PreloadStep(p) ==
  /\ variant = "lazy"
  /\ pre[p].st = "wait" /\ loads[pre[p].wait].st # "pending"
  /\ LET plan == PreloadPlan(pre[p].j + 1, calls[p].ver)
     IN /\ pre' = [pre EXCEPT ![p] = plan.pre]
        /\ loads' = plan.loads
        /\ rq' = plan.rq
        /\ loadingById' = plan.loadingById
        /\ out' = plan.out
  /\ UNCHANGED <<sm, anim, validation, variant, opVersion, activeConfig, activeHandles, handleById,
                 activeAssets, itemsGen, itemStore, currentActiveId, calls, rViewer,
                 rHandles, rSceneIdOrder, nextHid>>
  /\ FadeStep
  /\ ViewerStep

\* --------------------------------- setSplatVisible (lazy and eager variants)
\* setSplatVisible once the handle is known (h = NoHandle for null): the
\* checks, the version bump and everything up to the awaited reveal
ToggleProceed(p, c, h) ==
  LET id    == c.id
      found == FindIdx(items, id) # 0
      it    == ItemOf(itemsGen, id)
  IN IF h = NoHandle \/ ~found
       THEN /\ calls' = [calls EXCEPT ![p] = Finish(c, "F")]
            /\ out' = <<>>
            /\ itemStore' = KeepStore(itemStore, itemsGen, calls')
            /\ UNCHANGED <<opVersion, rHandles>>
     ELSE IF it.visible = c.want
       THEN /\ calls' = [calls EXCEPT ![p] = Finish(c, BoolRes(c.want))]
            /\ out' = <<>>
            /\ itemStore' = KeepStore(itemStore, itemsGen, calls')
            /\ UNCHANGED <<opVersion, rHandles>>
     ELSE IF c.want
       THEN /\ opVersion' = NextVersion
            /\ calls' = [calls EXCEPT ![p] = [c EXCEPT !.pc = "show", !.ver = NextVersion,
                                                       !.gen = itemsGen, !.h = h]]
            /\ itemStore' = KeepStore([itemStore EXCEPT ![itemsGen] =
                                         SetItemVisible(@, id, TRUE)], itemsGen, calls')
            /\ rHandles' = RendererSetVisible(rHandles, id, TRUE)
            /\ out' = <<Ev("setVisibleT", id, h.hid), Ev("revealStart", id, h.hid),
                        Ev("revealIn", activeConfig, h.hid)>>
     ELSE /\ opVersion' = NextVersion
          /\ calls' = [calls EXCEPT ![p] = [c EXCEPT !.pc = "hide", !.ver = NextVersion,
                                                     !.gen = itemsGen, !.h = h]]
          /\ itemStore' = KeepStore(itemStore, itemsGen, calls')
          /\ rHandles' = rHandles
          /\ out' = <<Ev("revealOut", activeConfig, h.hid)>>

ToggleCall(p, id, want) ==
  [IdleCall EXCEPT !.kind = "toggle", !.pc = "call", !.id = id, !.want = want,
                   !.ov = PrevPending(p)]

\* setSplatVisible(id, visible) of the lazy variant up to its first await
CallSetSplatVisibleLazy(p, id, want) ==
  /\ variant = "lazy"
  /\ IsNext(p) /\ NoMicrotask
  /\ LET c == ToggleCall(p, id, want)
     IN IF activeConfig = "none"
          THEN /\ calls' = [calls EXCEPT ![p] = Finish(c, "F")]
               /\ out' = <<>>
               /\ UNCHANGED <<opVersion, rHandles, itemStore, loads, rq, loadingById>>
        ELSE IF id \in DOMAIN handleById
          THEN /\ ToggleProceed(p, c, handleById[id])
               /\ UNCHANGED <<loads, rq, loadingById>>
        ELSE IF id \in DOMAIN loadingById
          THEN /\ calls' = [calls EXCEPT ![p] = [c EXCEPT !.pc = "tload",
                                                          !.wait = loadingById[id]]]
               /\ out' = <<>>
               /\ UNCHANGED <<opVersion, rHandles, itemStore, loads, rq, loadingById>>
        ELSE IF id \notin Range(Assets(activeAssets))
          THEN /\ ToggleProceed(p, c, NoHandle)
               /\ UNCHANGED <<loads, rq, loadingById>>
        ELSE LET e == EnsureNew(id, opVersion, activeAssets, loads, rq, loadingById,
                                rSceneIdOrder)
             IN /\ calls' = [calls EXCEPT ![p] = [c EXCEPT !.pc = "tload", !.wait = e.wait]]
                /\ loads' = e.loads
                /\ rq' = e.rq
                /\ loadingById' = e.loadingById
                /\ out' = <<Ev("loadSplat", id, e.wait)>>
                /\ UNCHANGED <<opVersion, rHandles, itemStore>>
  /\ UNCHANGED <<sm, anim, validation, variant, activeConfig, activeHandles, handleById, activeAssets, itemsGen,
                 currentActiveId, pre, rViewer, rSceneIdOrder, nextHid>>
  /\ FadeStep
  /\ ViewerStep

\* setSplatVisible resumed after the awaited ensureHandleLoaded
ToggleLoaded(p) ==
  /\ variant = "lazy"
  /\ calls[p].kind = "toggle" /\ calls[p].pc = "tload"
  /\ loads[calls[p].wait].st # "pending"
  /\ ToggleProceed(p, calls[p], loads[calls[p].wait].h)
  /\ UNCHANGED <<sm, anim, validation, variant, activeConfig, activeHandles, handleById, loadingById,
                 activeAssets, itemsGen, currentActiveId, pre, loads, rViewer,
                 rSceneIdOrder, rq, nextHid>>
  /\ FadeStep
  /\ ViewerStep

\* setSplatVisible(id, visible) of the eager variant up to its first await
CallSetSplatVisibleEager(p, id, want) ==
  /\ variant = "eager"
  /\ IsNext(p) /\ NoMicrotask
  /\ LET c == ToggleCall(p, id, want)
         i == FindIdx(activeHandles, id)
     IN IF activeConfig = "none"
          THEN /\ calls' = [calls EXCEPT ![p] = Finish(c, "F")]
               /\ out' = <<>>
               /\ UNCHANGED <<opVersion, rHandles, itemStore>>
          ELSE ToggleProceed(p, c, IF i = 0 THEN NoHandle ELSE activeHandles[i])
  /\ UNCHANGED <<sm, anim, validation, variant, activeConfig, activeHandles, handleById, loadingById,
                 activeAssets, itemsGen, currentActiveId, pre, loads, rViewer,
                 rSceneIdOrder, rq, nextHid>>
  /\ FadeStep
  /\ ViewerStep

\* the show branch after prepareRevealStart and revealIn: return true
ToggleShowDone(p) ==
  /\ calls[p].kind = "toggle" /\ calls[p].pc = "show" /\ NoMicrotask
  /\ calls' = [calls EXCEPT ![p] = Finish(@, "T")]
  /\ itemStore' = KeepStore(itemStore, itemsGen, calls')
  /\ out' = <<>>
  /\ UNCHANGED <<sm, anim, validation, variant, opVersion, activeConfig, activeHandles, handleById,
                 loadingById, activeAssets, itemsGen, currentActiveId, pre, loads,
                 rViewer, rHandles, rSceneIdOrder, rq, nextHid>>
  /\ FadeStep
  /\ ViewerStep

\* variant of StaleAfterReveal: every resumed hide counts as superseded
StaleAfterRevealAlways(p) == TRUE

\* localVersion !== this.opVersion after the awaited revealOut
StaleAfterReveal(p) == calls[p].ver # opVersion

\* the hide branch after the awaited revealOut
ToggleHideDone(p) ==
  /\ calls[p].kind = "toggle" /\ calls[p].pc = "hide" /\ NoMicrotask
  /\ IF StaleAfterReveal(p)
       THEN /\ calls' = [calls EXCEPT ![p] =
                           Finish(@, BoolRes(ItemOf(calls[p].gen, calls[p].id).visible))]
            /\ itemStore' = KeepStore(itemStore, itemsGen, calls')
            /\ out' = <<>>
            /\ rHandles' = rHandles
       ELSE /\ calls' = [calls EXCEPT ![p] = Finish(@, "F")]
            /\ rHandles' = RendererSetVisible(rHandles, calls[p].id, FALSE)
            /\ itemStore' = KeepStore([itemStore EXCEPT ![calls[p].gen] =
                                         SetItemVisible(@, calls[p].id, FALSE)],
                                      itemsGen, calls')
            /\ out' = <<Ev("setVisibleF", calls[p].id, calls[p].h.hid)>>
  /\ UNCHANGED <<sm, anim, validation, variant, opVersion, activeConfig, activeHandles, handleById,
                 loadingById, activeAssets, itemsGen, currentActiveId, pre, loads,
                 rViewer, rSceneIdOrder, rq, nextHid>>
  /\ FadeStep
  /\ ViewerStep

\* ---------------------------- loadScene after the clear (exclusive, eager)
\* renderer.loadSplats(config.assets) as called: queued unless it throws
SplatsRequest(p) ==
  IF LoadSplatsThrows(Assets(calls[p].scene), OrderAfterClear(p))
    THEN RqAfter(p)
    ELSE Append(RqAfter(p), Req("loadAll", p))

LoadSceneClearDoneExclusive(p) ==
  /\ variant = "exclusive"
  /\ ClearSettles(p) /\ ~ClearThrows(p) /\ ~StaleAfterClear(p)
  /\ handleById' = EmptyMap
  /\ calls' = [calls EXCEPT ![p].pc = "splats",
         ![p].queued = ~LoadSplatsThrows(Assets(calls[p].scene), OrderAfterClear(p))]
  /\ rq' = SplatsRequest(p)
  /\ rHandles' = HandlesAfterClear(p)
  /\ rSceneIdOrder' = OrderAfterClear(p)
  /\ out' = <<Ev("loadSplats", calls[p].scene, p)>>
  /\ UNCHANGED <<sm, anim, validation, variant, opVersion, activeConfig, activeHandles, loadingById,
                 activeAssets, itemsGen, itemStore, currentActiveId, pre, loads, rViewer,
                 nextHid>>
  /\ FadeStep
  /\ ViewerStep

LoadSceneClearDoneEager(p) ==
  /\ variant = "eager"
  /\ ClearSettles(p) /\ ~ClearThrows(p) /\ ~StaleAfterClear(p)
  /\ calls' = [calls EXCEPT ![p].pc = "splats",
         ![p].queued = ~LoadSplatsThrows(Assets(calls[p].scene), OrderAfterClear(p))]
  /\ rq' = SplatsRequest(p)
  /\ rHandles' = HandlesAfterClear(p)
  /\ rSceneIdOrder' = OrderAfterClear(p)
  /\ out' = <<Ev("loadSplats", calls[p].scene, p)>>
  /\ UNCHANGED <<sm, anim, validation, variant, opVersion, activeConfig, activeHandles, handleById,
                 loadingById, activeAssets, itemsGen, itemStore, currentActiveId, pre,
                 loads, rViewer, nextHid>>
  /\ FadeStep
  /\ ViewerStep

\* renderer.loadSplats of call p is the mutation that settles now
SplatsSettle(p) ==
  /\ calls[p].kind = "loadScene" /\ calls[p].pc = "splats" /\ MaySettle(calls[p].queued)
  /\ calls[p].queued => HeadIs("loadAll", p)

SplatsFail(p) == ~calls[p].queued \/ ViewerLoadFails(Assets(calls[p].scene))

\* the batch load rejected: SceneLoadError('Unable to load scene assets.')
LoadSceneSplatsFailed(p) ==
  /\ variant \in {"exclusive", "eager"}
  /\ SplatsSettle(p) /\ SplatsFail(p)
  /\ calls' = [calls EXCEPT ![p] =
       Throw(@, "errAssets",
             WrapAssetError(LoadSplatsMessage(Assets(calls[p].scene), calls[p].queued)))]
  /\ rq' = RqAfter(p)
  /\ out' = <<Ev("reject", "assets", p)>>
  /\ itemStore' = KeepStore(itemStore, itemsGen, calls')
  /\ UNCHANGED <<sm, anim, validation, variant, opVersion, activeConfig, activeHandles, handleById,
                 loadingById, activeAssets, itemsGen, currentActiveId, pre, loads,
                 rViewer, rHandles, rSceneIdOrder, nextHid>>
  /\ FadeStep
  /\ ViewerStep

RECURSIVE PutAll(_, _, _)
\* for (const handle of this.activeHandles) this.handleById.set(handle.id, handle)
PutAll(m, hs, i) ==
  IF i > Len(hs) THEN m ELSE PutAll(MapPut(m, hs[i].id, hs[i]), hs, i + 1)

\* exclusive: the tail of loadScene after the awaited loadSplats
LoadSceneSplatsDoneExclusive(p) ==
  /\ variant = "exclusive"
  /\ SplatsSettle(p) /\ ~SplatsFail(p)
  /\ LET s   == calls[p].scene
         rhs == NewRendererHandles(Assets(s), s)
         hs  == [i \in DOMAIN rhs |-> AsHandle(rhs[i])]
     IN /\ rq' = RqAfter(p)
        /\ rHandles' = RendererSetVisible(rHandles \o rhs, Assets(s)[1], TRUE)
        /\ rSceneIdOrder' = rSceneIdOrder \o Assets(s)
        /\ nextHid' = nextHid + Len(rhs)
        /\ activeHandles' = hs
        /\ currentActiveId' = Assets(s)[1]
        /\ itemsGen' = itemsGen + 1
        /\ handleById' = PutAll(handleById, hs, 1)
        /\ activeConfig' = s
        /\ calls' = [calls EXCEPT ![p] = Finish(@, s)]
        /\ itemStore' = KeepStore(MapPut(itemStore, itemsGen + 1,
                                         NewItemsFirstVisible(s, TRUE)),
                                  itemsGen + 1, calls')
        /\ out' = <<Ev("items", s, p), Ev("setVisibleT", Assets(s)[1], hs[1].hid),
                    Ev("revealStart", Assets(s)[1], hs[1].hid), Ev("ready", s, p)>>
  /\ UNCHANGED <<sm, anim, validation, variant, opVersion, loadingById, activeAssets, pre, loads, rViewer>>
  /\ FadeStep
  /\ ViewerStep

\* loadVersion !== this.opVersion after the awaited loadSplats (eager)
StaleAfterSplats(p) == calls[p].ver # opVersion

\* eager: the tail of loadScene after the awaited loadSplats
LoadSceneSplatsDoneEager(p) ==
  /\ variant = "eager"
  /\ SplatsSettle(p) /\ ~SplatsFail(p)
  /\ LET s   == calls[p].scene
         rhs == NewRendererHandles(Assets(s), s)
         hs  == [i \in DOMAIN rhs |-> AsHandle(rhs[i])]
     IN /\ rq' = RqAfter(p)
        /\ rHandles' = rHandles \o rhs
        /\ rSceneIdOrder' = rSceneIdOrder \o Assets(s)
        /\ nextHid' = nextHid + Len(rhs)
        /\ IF StaleAfterSplats(p)
             THEN /\ calls' = [calls EXCEPT ![p] = Finish(@, ActiveOrOwn(p))]
                  /\ itemStore' = KeepStore(itemStore, itemsGen, calls')
                  /\ out' = <<>>
                  /\ UNCHANGED <<activeHandles, itemsGen, activeConfig>>
             ELSE /\ activeHandles' = hs
                  /\ itemsGen' = itemsGen + 1
                  /\ activeConfig' = s
                  /\ calls' = [calls EXCEPT ![p] = Finish(@, s)]
                  /\ itemStore' = KeepStore(MapPut(itemStore, itemsGen + 1,
                                                   NewItemsDefaultVisible(s)),
                                            itemsGen + 1, calls')
                  /\ out' = [i \in DOMAIN hs |-> Ev("revealStart", hs[i].id, hs[i].hid)]
                            \o <<Ev("ready", s, p)>>
  /\ UNCHANGED <<sm, anim, validation, variant, opVersion, handleById, loadingById, activeAssets,
                 currentActiveId, pre, loads, rViewer>>
  /\ FadeStep
  /\ ViewerStep

\* ------------------------------------------------ exclusive: activateSplat
RECURSIVE HideOthers(_, _, _, _)
\* for (const item of this.activeItems) { if (item.id === id) continue;
\*   this.renderer.setVisible(item.id, false); ... }
HideOthers(rh, its, i, id) ==
  IF i > Len(its) THEN rh
  ELSE HideOthers(IF its[i].id = id THEN rh ELSE RendererSetVisible(rh, its[i].id, FALSE),
                  its, i + 1, id)

\* variant of DeactivateOthers: the other items keep their flag
DeactivateOthersNone(its, id) == its

\* ... item.active = false for every item but id
DeactivateOthers(its, id) ==
  [i \in DOMAIN its |-> IF its[i].id = id THEN its[i] ELSE [its[i] EXCEPT !.visible = FALSE]]

\* activateSplat from "Enforce exclusivity" up to the awaited revealIn; c is
\* the call with its captured target item (c.gen) and target handle (c.h)
ActivateApply(p, c) ==
  LET store1 == [itemStore EXCEPT ![itemsGen] = DeactivateOthers(@, c.id)]
      store2 == IF c.gen \in DOMAIN store1
                  THEN [store1 EXCEPT ![c.gen] = SetItemVisible(@, c.id, TRUE)]
                  ELSE store1
  IN /\ rHandles' = RendererSetVisible(HideOthers(rHandles, items, 1, c.id), c.id, TRUE)
     /\ currentActiveId' = c.id
     /\ calls' = [calls EXCEPT ![p] = [c EXCEPT !.pc = "xin"]]
     /\ itemStore' = KeepStore(store2, itemsGen, calls')
     /\ out' = [i \in DOMAIN items |->
                  Ev(IF items[i].id = c.id THEN "skip" ELSE "setVisibleF", items[i].id, 0)]
               \o <<Ev("setVisibleT", c.id, c.h.hid), Ev("revealStart", c.id, c.h.hid),
                    Ev("revealIn", activeConfig, c.h.hid)>>

\* activateSplat(id) up to its first await
CallActivateSplat(p, id) ==
  /\ variant = "exclusive"
  /\ IsNext(p) /\ NoMicrotask
  /\ LET c0 == [IdleCall EXCEPT !.kind = "activate", !.pc = "call", !.id = id,
                                !.want = TRUE, !.ov = PrevPending(p)]
         ok == /\ activeConfig # "none"
               /\ id \in DOMAIN handleById
               /\ HasItem(itemsGen, id)
               /\ ~ItemOf(itemsGen, id).failed
         c  == [c0 EXCEPT !.ver = NextVersion, !.gen = itemsGen,
                          !.h = handleById[id]]
     IN IF ~ok
          THEN /\ calls' = [calls EXCEPT ![p] = Finish(c0, "F")]
               /\ out' = <<>>
               /\ UNCHANGED <<opVersion, rHandles, itemStore, currentActiveId>>
        ELSE IF currentActiveId = id
          THEN /\ calls' = [calls EXCEPT ![p] = Finish(c0, "T")]
               /\ out' = <<>>
               /\ UNCHANGED <<opVersion, rHandles, itemStore, currentActiveId>>
        ELSE IF currentActiveId # "" /\ currentActiveId \in DOMAIN handleById
          THEN /\ opVersion' = NextVersion
               /\ calls' = [calls EXCEPT ![p] = [c EXCEPT !.pc = "xout"]]
               /\ itemStore' = KeepStore(itemStore, itemsGen, calls')
               /\ out' = <<Ev("revealOut", activeConfig, handleById[currentActiveId].hid)>>
               /\ UNCHANGED <<rHandles, currentActiveId>>
        ELSE /\ opVersion' = NextVersion
             /\ ActivateApply(p, c)
  /\ UNCHANGED <<sm, anim, validation, variant, activeConfig, activeHandles, handleById, loadingById,
                 activeAssets, itemsGen, pre, loads, rViewer, rSceneIdOrder, rq, nextHid>>
  /\ FadeStep
  /\ ViewerStep

\* activateSplat after the awaited revealOut of the previously active handle
ActivateOutDone(p) ==
  /\ calls[p].kind = "activate" /\ calls[p].pc = "xout" /\ NoMicrotask
  /\ IF StaleAfterReveal(p)
       THEN /\ calls' = [calls EXCEPT ![p] = Finish(@, "F")]
            /\ itemStore' = KeepStore(itemStore, itemsGen, calls')
            /\ out' = <<>>
            /\ UNCHANGED <<rHandles, currentActiveId>>
       ELSE ActivateApply(p, calls[p])
  /\ UNCHANGED <<sm, anim, validation, variant, opVersion, activeConfig, activeHandles, handleById,
                 loadingById, activeAssets, itemsGen, pre, loads, rViewer, rSceneIdOrder,
                 rq, nextHid>>
  /\ FadeStep
  /\ ViewerStep

\* activateSplat after the awaited revealIn of the target
ActivateInDone(p) ==
  /\ calls[p].kind = "activate" /\ calls[p].pc = "xin" /\ NoMicrotask
  /\ calls' = [calls EXCEPT ![p] = Finish(@, IF StaleAfterReveal(p) THEN "F" ELSE "T")]
  /\ itemStore' = KeepStore(itemStore, itemsGen, calls')
  /\ out' = IF StaleAfterReveal(p) THEN <<>> ELSE <<Ev("items", calls[p].id, p)>>
  /\ UNCHANGED <<sm, anim, validation, variant, opVersion, activeConfig, activeHandles, handleById,
                 loadingById, activeAssets, itemsGen, currentActiveId, pre, loads,
                 rViewer, rHandles, rSceneIdOrder, rq, nextHid>>
  /\ FadeStep
  /\ ViewerStep

\* ------------------------------------------------------------- dispose
\* SceneManager.dispose up to the await of renderer.dispose(), whose own
\* first lines (dispose the handles, handles.length = 0) run in the call
CallDispose(p) ==
  /\ IsNext(p) /\ NoMicrotask
  /\ activeHandles' = <<>>
  /\ itemsGen' = itemsGen + 1
  /\ handleById' = EmptyMap
  /\ loadingById' = EmptyMap
  /\ activeAssets' = "none"
  /\ currentActiveId' = ""
  /\ rHandles' = <<>>
  /\ rq' = IF rViewer THEN Append(rq, Req("dispose", p)) ELSE rq
  /\ calls' = [calls EXCEPT ![p] =
       [IdleCall EXCEPT !.kind = "dispose", !.pc = "disp", !.queued = rViewer,
                        !.ov = PrevPending(p)]]
  /\ itemStore' = KeepStore(MapPut(itemStore, itemsGen + 1, <<>>), itemsGen + 1, calls')
  /\ out' = <<Ev("dispose", "", p)>>
  /\ UNCHANGED <<sm, anim, validation, variant, opVersion, activeConfig, pre, loads, rViewer, rSceneIdOrder,
                 nextHid>>
  /\ FadeStep
  /\ ViewerStep

\* renderer.dispose settled: viewer.dispose() ran in the queue, then
\* viewer = null and sceneIdOrder = []; a second dispose finds no viewer
DisposeDone(p) ==
  /\ calls[p].kind = "dispose" /\ calls[p].pc = "disp" /\ MaySettle(calls[p].queued)
  /\ calls[p].queued => HeadIs("dispose", p)
  /\ rq' = RqAfter(p)
  /\ IF calls[p].queued /\ ~rViewer
       THEN /\ calls' = [calls EXCEPT ![p] =
                 Throw(@, "err", MkError("TypeError", NullViewerMessage, <<>>))]
            /\ UNCHANGED <<rViewer, rSceneIdOrder>>
       ELSE /\ calls' = [calls EXCEPT ![p] = Finish(@, "void")]
            /\ rViewer' = IF calls[p].queued THEN FALSE ELSE rViewer
            /\ rSceneIdOrder' = IF calls[p].queued THEN <<>> ELSE rSceneIdOrder
  /\ itemStore' = KeepStore(itemStore, itemsGen, calls')
  /\ out' = <<>>
  /\ UNCHANGED <<sm, anim, validation, variant, opVersion, activeConfig, activeHandles, handleById,
                 loadingById, activeAssets, itemsGen, currentActiveId, pre, loads,
                 rHandles, nextHid>>
  /\ FadeStep
  /\ ViewerStep

\* ---------------------------------------------------- revealActiveScene
RECURSIVE SyncVisible(_, _, _)
\* per tracked handle: renderer.setVisible(handle.id, item?.visible ?? false)
SyncVisible(rh, hs, i) ==
  IF i > Len(hs) THEN rh
  ELSE SyncVisible(RendererSetVisible(rh, hs[i].id,
                                      HasItem(itemsGen, hs[i].id)
                                        /\ ItemOf(itemsGen, hs[i].id).visible),
                   hs, i + 1)

\* revealActiveScene: everything it changes happens before its await
RevealActiveScene ==
  /\ NoMicrotask
  /\ activeConfig # "none"
  /\ Len(activeHandles) > 0
  /\ rHandles' = SyncVisible(rHandles, activeHandles, 1)
  /\ out' = [i \in DOMAIN activeHandles |->
               Ev(IF HasItem(itemsGen, activeHandles[i].id)
                     /\ ItemOf(itemsGen, activeHandles[i].id).visible
                    THEN "revealIn" ELSE "setVisibleF",
                  activeConfig, activeHandles[i].hid)]
  /\ UNCHANGED <<sm, anim, validation, variant, opVersion, activeConfig, activeHandles, handleById,
                 loadingById, activeAssets, itemsGen, itemStore, currentActiveId, calls,
                 pre, loads, rViewer, rSceneIdOrder, rq, nextHid>>
  /\ FadeStep
  /\ ViewerStep

\* ------------------------------------------------------------ the system
Init ==
  /\ variant \in Variants
  /\ opVersion = 0
  /\ activeConfig = "none"
  /\ activeHandles = <<>>
  /\ handleById = EmptyMap
  /\ loadingById = EmptyMap
  /\ activeAssets = "none"
  /\ itemsGen = 1
  /\ itemStore = [g \in {1} |-> <<>>]
  /\ currentActiveId = ""
  /\ calls = [p \in Procs |-> IdleCall]
  /\ pre = [p \in Procs |-> NoPre]
  /\ loads = <<>>
  /\ rViewer = TRUE
  /\ rHandles = <<>>
  /\ rSceneIdOrder = <<>>
  /\ rq = <<>>
  /\ nextHid = 1
  /\ validation = NoValidation
  /\ anim = NoAnim
  /\ fade = NoFade
  /\ sm = NoMutation
  /\ vw = NoViewerState
  /\ out = <<>>

\* loadScene up to and including the awaited renderer.clear(): the same text
\* in the three variants
LoadScenePrefix ==
  \/ \E p \in Procs, s \in SceneArgs : CallLoadScene(p, s)
  \/ \E p \in Procs : LoadSceneConfigDone(p)
  \/ \E p \in Procs : LoadSceneDissolveDone(p)
  \/ \E p \in Procs : LoadSceneClearAbandon(p)

Disposal ==
  \/ \E p \in Procs : CallDispose(p)
  \/ \E p \in Procs : DisposeDone(p)

LazyLoading ==
  \/ \E p \in Procs : LoadSceneClearDoneLazy(p)
  \/ \E k \in 1..(2 * MaxCalls) : LoadSettle(k)
  \/ \E p \in Procs : LoadSceneFirstDone(p)
  \/ \E p \in Procs : PreloadStep(p)

LazyToggles ==
  \/ \E p \in Procs, id \in ToggleIds, want \in BOOLEAN : CallSetSplatVisibleLazy(p, id, want)
  \/ \E p \in Procs : ToggleLoaded(p)
  \/ \E p \in Procs : ToggleShowDone(p)
  \/ \E p \in Procs : ToggleHideDone(p)

ExclusiveLoading ==
  \/ \E p \in Procs : LoadSceneClearDoneExclusive(p)
  \/ \E p \in Procs : LoadSceneSplatsFailed(p)
  \/ \E p \in Procs : LoadSceneSplatsDoneExclusive(p)

ExclusiveToggles ==
  \/ \E p \in Procs, id \in ToggleIds : CallActivateSplat(p, id)
  \/ \E p \in Procs : ActivateOutDone(p)
  \/ \E p \in Procs : ActivateInDone(p)

EagerLoading ==
  \/ \E p \in Procs : LoadSceneClearDoneEager(p)
  \/ \E p \in Procs : LoadSceneSplatsFailed(p)
  \/ \E p \in Procs : LoadSceneSplatsDoneEager(p)

EagerToggles ==
  \/ \E p \in Procs, id \in ToggleIds, want \in BOOLEAN : CallSetSplatVisibleEager(p, id, want)
  \/ \E p \in Procs : ToggleShowDone(p)
  \/ \E p \in Procs : ToggleHideDone(p)

NextLazy == LoadScenePrefix \/ LazyLoading \/ LazyToggles \/ Disposal \/ RevealActiveScene

NextExclusive ==
  LoadScenePrefix \/ ExclusiveLoading \/ ExclusiveToggles \/ Disposal \/ RevealActiveScene

NextEager == LoadScenePrefix \/ EagerLoading \/ EagerToggles \/ Disposal \/ RevealActiveScene

\* the lazy SceneManager (first asset, then background preload)
InitLazy == Init /\ variant = "lazy"

SpecLazy == InitLazy /\ [][NextLazy]_vars

\* the exclusive SceneManager (activateSplat)
InitExclusive == Init /\ variant = "exclusive"

SpecExclusive == InitExclusive /\ [][NextExclusive]_vars

\* the eager SceneManager (loadSplats, independent toggles)
InitEager == Init /\ variant = "eager"

SpecEager == InitEager /\ [][NextEager]_vars

\* only loadScene calls are issued, in any of the three variants
NextLoadsOnly == LoadScenePrefix \/ LazyLoading \/ ExclusiveLoading \/ EagerLoading

SpecLoadsOnly == Init /\ [][NextLoadsOnly]_vars

\* the exclusive SceneManager while it is in use: loadScene and activateSplat
\* calls only, no dispose
NextExclusiveLive ==
  LoadScenePrefix \/ ExclusiveLoading \/ ExclusiveToggles \/ RevealActiveScene

SpecExclusiveLive == InitExclusive /\ [][NextExclusiveLive]_vars

\* the two SceneManagers with independent toggles (setSplatVisible)
InitIndependent == Init /\ variant \in {"lazy", "eager"}

SpecIndependent == InitIndependent /\ [][NextLazy \/ NextEager]_vars

\* ------------------------------------ the renderer called on its own
\* the asset lists handed to renderer.loadSplats
Batches == {"one", "bad", "mixed", "late", "noext", "viewer"}

BatchAssets(b) ==
  CASE b = "one"    -> <<"x">>
    [] b = "bad"    -> <<"u">>
    [] b = "mixed"  -> <<"x", "u">>
    [] b = "late"   -> <<"y", "z", "q">>
    [] b = "noext"  -> <<"n", "u">>
    [] b = "viewer" -> <<"v", "y">>
    [] OTHER        -> <<>>

\* renderer.loadSplats(assets) up to its first await: it throws, or the load
\* joins the mutation queue
RendererLoadSplats(p, b) ==
  /\ IsNext(p) /\ NoMicrotask
  /\ LET ids == BatchAssets(b)
         thr == LoadSplatsThrows(ids, rSceneIdOrder)
         c   == [IdleCall EXCEPT !.kind = "loadSplats", !.scene = b, !.ov = PrevPending(p)]
     IN /\ calls' = [calls EXCEPT ![p] =
             IF thr
               THEN Throw(c, "err",
                          MkError("Error", LoadSplatsThrownMessage(ids, rSceneIdOrder), <<>>))
               ELSE [c EXCEPT !.pc = "rload", !.queued = TRUE]]
        /\ rq' = IF thr THEN rq ELSE Append(rq, Req("rload", p))
  /\ out' = <<>>
  /\ itemStore' = KeepStore(itemStore, itemsGen, calls')
  /\ UNCHANGED <<sm, anim, validation, variant, opVersion, activeConfig, activeHandles, handleById,
                 loadingById, activeAssets, itemsGen, currentActiveId, pre, loads,
                 rViewer, rHandles, rSceneIdOrder, nextHid>>
  /\ FadeStep
  /\ ViewerStep

\* the queued body of loadSplats: loadAssetsWithViewer, then the new handles
RendererLoadSplatsDone(p) ==
  /\ calls[p].kind = "loadSplats" /\ calls[p].pc = "rload"
  /\ HeadIs("rload", p) /\ MaySettle(TRUE)
  /\ rq' = Tail(rq)
  /\ LET ids == BatchAssets(calls[p].scene)
     IN IF ViewerLoadFails(ids)
          THEN /\ calls' = [calls EXCEPT ![p] =
                    Throw(@, "err",
                          MkError("Error",
                                  IF ~rViewer THEN "Renderer not initialized."
                                  ELSE AssetLoadErrorMessage(ids), <<>>))]
               /\ out' = IF rViewer THEN <<Ev("addSplatScene", calls[p].scene, p)>> ELSE <<>>
               /\ UNCHANGED <<rHandles, rSceneIdOrder, nextHid>>
          ELSE /\ calls' = [calls EXCEPT ![p] = Finish(@, "handles")]
               /\ out' = <<Ev("addSplatScene", calls[p].scene, p)>>
               /\ rHandles' = rHandles \o NewRendererHandles(ids, calls[p].scene)
               /\ rSceneIdOrder' = rSceneIdOrder \o ids
               /\ nextHid' = nextHid + Len(ids)
  /\ itemStore' = KeepStore(itemStore, itemsGen, calls')
  /\ UNCHANGED <<sm, anim, validation, variant, opVersion, activeConfig, activeHandles, handleById,
                 loadingById, activeAssets, itemsGen, currentActiveId, pre, loads, rViewer>>
  /\ FadeStep
  /\ ViewerStep

\* renderer.clear() as called: it returns without a viewer, or joins the queue
RendererClear(p) ==
  /\ IsNext(p) /\ NoMicrotask
  /\ LET c == [IdleCall EXCEPT !.kind = "rendererClear", !.ov = PrevPending(p)]
     IN calls' = [calls EXCEPT ![p] =
          IF rViewer THEN [c EXCEPT !.pc = "rclear", !.queued = TRUE] ELSE Finish(c, "void")]
  /\ rq' = IF rViewer THEN Append(rq, Req("rclear", p)) ELSE rq
  /\ out' = <<>>
  /\ itemStore' = KeepStore(itemStore, itemsGen, calls')
  /\ UNCHANGED <<sm, anim, validation, variant, opVersion, activeConfig, activeHandles, handleById,
                 loadingById, activeAssets, itemsGen, currentActiveId, pre, loads,
                 rViewer, rHandles, rSceneIdOrder, nextHid>>
  /\ FadeStep
  /\ ViewerStep

\* the queued body of clear
RendererClearDone(p) ==
  /\ calls[p].kind = "rendererClear" /\ calls[p].pc = "rclear"
  /\ HeadIs("rclear", p) /\ MaySettle(TRUE)
  /\ rq' = Tail(rq)
  /\ IF ~rViewer
       THEN /\ calls' = [calls EXCEPT ![p] =
                 Throw(@, "err", MkError("TypeError", NullViewerMessage, <<>>))]
            /\ UNCHANGED <<rHandles, rSceneIdOrder>>
       ELSE /\ calls' = [calls EXCEPT ![p] = Finish(@, "void")]
            /\ rHandles' = <<>>
            /\ rSceneIdOrder' = <<>>
  /\ out' = <<>>
  /\ itemStore' = KeepStore(itemStore, itemsGen, calls')
  /\ UNCHANGED <<sm, anim, validation, variant, opVersion, activeConfig, activeHandles, handleById,
                 loadingById, activeAssets, itemsGen, currentActiveId, pre, loads,
                 rViewer, nextHid>>
  /\ FadeStep
  /\ ViewerStep

NextRenderer ==
  \/ \E p \in Procs, b \in Batches : RendererLoadSplats(p, b)
  \/ \E p \in Procs : RendererLoadSplatsDone(p)
  \/ \E p \in Procs : RendererClear(p)
  \/ \E p \in Procs : RendererClearDone(p)
  \/ Disposal

SpecRenderer == InitLazy /\ [][NextRenderer]_vars

\* --------------------- the renderer's mutation queue, microtask by microtask
\* the withSceneMutation calls drawn
MaxMutations == 4

\* the asset lists handed to renderer.loadSplats here
MutBatches == {"one", "viewer", "bad"}

\* the promise `run` of one withSceneMutation call: queued until its callback
\* starts, body while work() executes, then fulfilled (ok) or rejected (err).
\* res is an outcome the body reached before its first await, after is set
\* once the caller of dispose has resumed
Run(op, b) == [op |-> op, b |-> b, st |-> "queued", res |-> "", after |-> FALSE]

Settled(r) == r.st \in {"ok", "err"}

\* variant of QueueReleased: work() is started without waiting for the queue
QueueReleasedAtOnce(k) == TRUE

\* this.sceneMutationQueue.then(...): the promise the k-th run is chained to
\* has fulfilled. It is Promise.resolve() for the first run, and
\* run.then(() => undefined, () => undefined) of the run before for the others
QueueReleased(k) == IF k = 1 THEN TRUE ELSE Settled(sm.runs[k - 1])

\* the callback of a run is ready to start (a microtask)
StartPending ==
  \E k \in DOMAIN sm.runs : sm.runs[k].st = "queued" /\ QueueReleased(k)

\* dispose() has yet to resume after its awaited mutation (a microtask)
DisposeAfterPending ==
  \E k \in DOMAIN sm.runs :
    sm.runs[k].op = "dispose" /\ sm.runs[k].st = "ok" /\ ~sm.runs[k].after

\* no microtask is pending: tasks (calls, viewer replies, frames) may run
MutIdle == ~StartPending /\ ~DisposeAfterPending

MutFrame ==
  UNCHANGED <<variant, opVersion, activeConfig, activeHandles, handleById, loadingById,
              activeAssets, itemsGen, itemStore, currentActiveId, calls, pre, loads, rq,
              validation, anim, fade, vw>>

\* withSceneMutation(work) as called: run is chained to the queue
withSceneMutation(op, b) == [sm EXCEPT !.runs = Append(@, Run(op, b))]

\* renderer.loadSplats(assets) as called
MutLoadSplats(b) ==
  /\ MutIdle /\ Len(sm.runs) < MaxMutations
  /\ IF LoadSplatsThrows(BatchAssets(b), rSceneIdOrder)
       THEN /\ sm' = sm
            /\ out' = <<Ev("reject", b, 0)>>
       ELSE /\ sm' = withSceneMutation("loadSplats", b)
            /\ out' = <<>>
  /\ UNCHANGED <<rViewer, rHandles, rSceneIdOrder, nextHid>>
  /\ MutFrame

\* renderer.clear() as called
MutClear ==
  /\ MutIdle /\ Len(sm.runs) < MaxMutations
  /\ sm' = IF rViewer THEN withSceneMutation("clear", "") ELSE sm
  /\ out' = <<Ev("clear", "", 0)>>
  /\ UNCHANGED <<rViewer, rHandles, rSceneIdOrder, nextHid>>
  /\ MutFrame

\* renderer.dispose() as called: the handles go at once
MutDispose ==
  /\ MutIdle /\ Len(sm.runs) < MaxMutations
  /\ rHandles' = <<>>
  /\ sm' = IF rViewer THEN withSceneMutation("dispose", "") ELSE sm
  /\ out' = <<Ev("dispose", "", 0)>>
  /\ UNCHANGED <<rViewer, rSceneIdOrder, nextHid>>
  /\ MutFrame

\* what the body of run r reaches before its first await: "" when it is
\* suspended on the viewer, an outcome when it ran to its end or threw
BodyAtStart(r) ==
  CASE r.op = "loadSplats" -> IF rViewer THEN "" ELSE "err"
    [] r.op = "clear"      -> IF rSceneIdOrder # <<>> THEN ""
                              ELSE IF rViewer THEN "ok" ELSE "err"
    [] OTHER               -> IF rViewer THEN "" ELSE "err"

\* the callback of run k starts: sceneGraphMutating = true, then work() up to
\* its first await
MutStart(k) ==
  /\ k \in DOMAIN sm.runs /\ sm.runs[k].st = "queued" /\ QueueReleased(k)
  /\ LET r == sm.runs[k]
         at == BodyAtStart(r)
     IN /\ sm' = [mutating |-> TRUE,
                  runs |-> [sm.runs EXCEPT ![k] = [r EXCEPT !.st = "body", !.res = at]]]
        /\ out' = IF r.op = "loadSplats" /\ at = ""
                    THEN <<Ev("addSplatScene", r.b, k)>> ELSE <<>>
        /\ IF r.op = "clear" /\ at = "ok"
             THEN rHandles' = <<>> /\ rSceneIdOrder' = <<>>
             ELSE UNCHANGED <<rHandles, rSceneIdOrder>>
  /\ UNCHANGED <<rViewer, nextHid>>
  /\ MutFrame

\* how the body of run r ends
BodyOutcome(r) ==
  IF r.res # "" THEN r.res
  ELSE IF r.op = "loadSplats" THEN (IF ViewerLoadFails(BatchAssets(r.b)) THEN "err" ELSE "ok")
  ELSE IF rViewer THEN "ok" ELSE "err"

\* work() of run k ends: finally { sceneGraphMutating = false }, and run
\* settles with the body's value or error for the caller of this mutation
MutFinish(k) ==
  /\ k \in DOMAIN sm.runs /\ sm.runs[k].st = "body"
  /\ MutIdle
  /\ LET r == sm.runs[k]
         o == BodyOutcome(r)
         ids == BatchAssets(r.b)
     IN /\ sm' = [mutating |-> FALSE,
                  runs |-> [sm.runs EXCEPT ![k] = [r EXCEPT !.st = o, !.res = o]]]
        /\ out' = IF o = "err" THEN <<Ev("reject", r.op, k)>> ELSE <<>>
        /\ IF o = "ok" /\ r.op = "loadSplats"
             THEN /\ rHandles' = rHandles \o NewRendererHandles(ids, r.b)
                  /\ rSceneIdOrder' = rSceneIdOrder \o ids
                  /\ nextHid' = nextHid + Len(ids)
             ELSE IF o = "ok" /\ r.op = "clear"
               THEN /\ rHandles' = <<>> /\ rSceneIdOrder' = <<>>
                    /\ UNCHANGED nextHid
               ELSE UNCHANGED <<rHandles, rSceneIdOrder, nextHid>>
  /\ UNCHANGED rViewer
  /\ MutFrame

\* dispose() resumed after its mutation: this.viewer = null and the resets.
\* The callback of the next run, queued one microtask earlier, goes first
MutDisposeAfter(k) ==
  /\ k \in DOMAIN sm.runs
  /\ sm.runs[k].op = "dispose" /\ sm.runs[k].st = "ok" /\ ~sm.runs[k].after
  /\ ~StartPending
  /\ sm' = [sm EXCEPT !.runs[k].after = TRUE]
  /\ rViewer' = FALSE
  /\ rSceneIdOrder' = <<>>
  /\ out' = <<>>
  /\ UNCHANGED <<rHandles, nextHid>>
  /\ MutFrame

\* renderer.update() on an animation frame
MutUpdate ==
  /\ MutIdle
  /\ out' = IF sm.mutating THEN <<Ev("updateSkipped", "", 0)>>
            ELSE IF rViewer THEN <<Ev("viewerUpdate", "", 0)>>
            ELSE <<Ev("noViewer", "", 0)>>
  /\ UNCHANGED <<sm, rViewer, rHandles, rSceneIdOrder, nextHid>>
  /\ MutFrame

NextMutation ==
  \/ \E b \in MutBatches : MutLoadSplats(b)
  \/ MutClear
  \/ MutDispose
  \/ \E k \in 1..MaxMutations : MutStart(k)
  \/ \E k \in 1..MaxMutations : MutFinish(k)
  \/ \E k \in 1..MaxMutations : MutDisposeAfter(k)
  \/ MutUpdate

SpecMutation == InitLazy /\ [][NextMutation]_vars

\* ---------------------------------------------- the animator on its own
InitReveal ==
  /\ variant = "lazy"
  /\ opVersion = 0
  /\ activeConfig = "none"
  /\ activeHandles = <<>>
  /\ handleById = EmptyMap
  /\ loadingById = EmptyMap
  /\ activeAssets = "none"
  /\ itemsGen = 1
  /\ itemStore = [g \in {1} |-> <<>>]
  /\ currentActiveId = ""
  /\ calls = [p \in Procs |-> IdleCall]
  /\ pre = [p \in Procs |-> NoPre]
  /\ loads = <<>>
  /\ rViewer = TRUE
  /\ rHandles = <<>>
  /\ rSceneIdOrder = <<>>
  /\ rq = <<>>
  /\ nextHid = 1
  /\ out = <<>>
  /\ validation = NoValidation
  /\ fade = NoFade
  /\ sm = NoMutation
  /\ vw = NoViewerState
  /\ \E b \in BoundsValues, pol \in Policies :
       anim = [NoAnim EXCEPT !.bounds = b, !.policy = pol]

\* revealIn / revealOut(handle, bounds, policy) up to the first frame: with
\* the policy disabled revealIn applies the fully revealed state and returns,
\* revealOut returns
RevealCall(dir) ==
  /\ anim.st \in {"idle", "resolved"} /\ anim.n < MaxCalls
  /\ anim' =
       IF anim.policy.enabled
         THEN [anim EXCEPT !.dir = dir, !.st = "running", !.elapsed = 0, !.frames = 0,
                           !.n = @ + 1]
       ELSE [anim EXCEPT !.dir = dir, !.st = "resolved", !.elapsed = 0, !.frames = 0,
                         !.n = @ + 1,
                         !.applied = IF dir = "in"
                                       THEN Params(FALSE, 1000 * anim.bounds.maxY)
                                       ELSE @]
  /\ UNCHANGED <<vw, sm, validation, fade, variant, opVersion, activeConfig, activeHandles,
                 handleById, loadingById, activeAssets, itemsGen, itemStore,
                 currentActiveId, calls, pre, loads, rViewer, rHandles, rSceneIdOrder, rq,
                 nextHid, out>>

\* one animation frame dt ms after the previous one: the parameters of the
\* frame are applied; the promise resolves once the frame with t >= 1 is applied
RevealFrame(dt) ==
  /\ anim.st = "running"
  /\ LET t == Progress(anim.elapsed + dt, anim.policy)
     IN anim' = [anim EXCEPT
          !.elapsed = @ + dt,
          !.frames = @ + 1,
          !.applied = Params(TRUE, PlaneAt(anim.dir, anim.bounds, anim.policy, t)),
          !.st = IF t >= 1000 THEN "resolved" ELSE "running"]
  /\ UNCHANGED <<vw, sm, validation, fade, variant, opVersion, activeConfig, activeHandles,
                 handleById, loadingById, activeAssets, itemsGen, itemStore,
                 currentActiveId, calls, pre, loads, rViewer, rHandles, rSceneIdOrder, rq,
                 nextHid, out>>

NextReveal ==
  \/ \E dir \in {"in", "out"} : RevealCall(dir)
  \/ \E dt \in FrameTimes : RevealFrame(dt)

SpecReveal == InitReveal /\ [][NextReveal]_vars

\* a scene.json value as it comes out of response.json()
InitValidate ==
  /\ variant = "lazy"
  /\ opVersion = 0
  /\ activeConfig = "none"
  /\ activeHandles = <<>>
  /\ handleById = EmptyMap
  /\ loadingById = EmptyMap
  /\ activeAssets = "none"
  /\ itemsGen = 1
  /\ itemStore = [g \in {1} |-> <<>>]
  /\ currentActiveId = ""
  /\ calls = [p \in Procs |-> IdleCall]
  /\ pre = [p \in Procs |-> NoPre]
  /\ loads = <<>>
  /\ rViewer = TRUE
  /\ rHandles = <<>>
  /\ rSceneIdOrder = <<>>
  /\ rq = <<>>
  /\ nextHid = 1
  /\ out = <<>>
  /\ anim = NoAnim
  /\ fade = NoFade
  /\ sm = NoMutation
  /\ vw = NoViewerState
  /\ \E r \in RawConfigs : validation = [NoValidation EXCEPT !.raw = r]

\* const validation = validateSceneConfig(raw)
Validate ==
  /\ ~validation.done
  /\ validation' = [validation EXCEPT !.done = TRUE,
                                      !.result = validateSceneConfig(validation.raw)]
  /\ UNCHANGED <<vw, sm, anim, fade, variant, opVersion, activeConfig, activeHandles, handleById,
                 loadingById, activeAssets, itemsGen, itemStore, currentActiveId, calls,
                 pre, loads, rViewer, rHandles, rSceneIdOrder, rq, nextHid, out>>

\* the validator applied to one value
SpecValidate == InitValidate /\ [][Validate]_vars

\* loadScene is also called for the scene whose first asset does not load
LoadScenePrefixAll ==
  \/ \E p \in Procs, s \in AllSceneArgs : CallLoadScene(p, s)
  \/ \E p \in Procs : LoadSceneConfigDone(p)
  \/ \E p \in Procs : LoadSceneDissolveDone(p)
  \/ \E p \in Procs : LoadSceneClearAbandon(p)

NextLazyAll ==
  LoadScenePrefixAll \/ LazyLoading \/ LazyToggles \/ Disposal \/ RevealActiveScene

\* the lazy SceneManager over all scenes
SpecLazyAll == InitLazy /\ [][NextLazyAll]_vars

NextAllScenes ==
  \/ LoadScenePrefixAll \/ Disposal \/ RevealActiveScene
  \/ LazyLoading \/ LazyToggles
  \/ ExclusiveLoading \/ ExclusiveToggles
  \/ EagerLoading \/ EagerToggles

\* the three SceneManagers over all scenes
SpecAllScenes == Init /\ [][NextAllScenes]_vars

\* the variants that show the first asset only, while in use (no dispose),
\* over all scenes
InitFirstShown == Init /\ variant \in {"lazy", "exclusive"}

NextFirstShown ==
  \/ LoadScenePrefixAll \/ RevealActiveScene
  \/ LazyLoading \/ LazyToggles
  \/ ExclusiveLoading \/ ExclusiveToggles

SpecFirstShown == InitFirstShown /\ [][NextFirstShown]_vars

\* everything that runs without a new call from the user interface: network
\* replies, renderer mutations that settle, reveal animations that end, and
\* the continuations they resume
Settling ==
  \/ \E p \in Procs : LoadSceneConfigDone(p)
  \/ \E p \in Procs : LoadSceneDissolveDone(p)
  \/ \E p \in Procs : LoadSceneClearAbandon(p)
  \/ \E p \in Procs : LoadSceneClearDoneLazy(p)
  \/ \E k \in 1..(2 * MaxCalls) : LoadSettle(k)
  \/ \E p \in Procs : LoadSceneFirstDone(p)
  \/ \E p \in Procs : PreloadStep(p)
  \/ \E p \in Procs : ToggleLoaded(p)
  \/ \E p \in Procs : ToggleShowDone(p)
  \/ \E p \in Procs : ToggleHideDone(p)
  \/ \E p \in Procs : LoadSceneClearDoneExclusive(p)
  \/ \E p \in Procs : LoadSceneClearDoneEager(p)
  \/ \E p \in Procs : LoadSceneSplatsFailed(p)
  \/ \E p \in Procs : LoadSceneSplatsDoneExclusive(p)
  \/ \E p \in Procs : LoadSceneSplatsDoneEager(p)
  \/ \E p \in Procs : ActivateOutDone(p)
  \/ \E p \in Procs : ActivateInDone(p)

\* retries: a scene that loads, one with an asset that does not load and one
\* whose configuration does not load
RetrySceneArgs == {"a", "c", BadScene}

LoadScenePrefixRetry ==
  \/ \E p \in Procs, s \in RetrySceneArgs : CallLoadScene(p, s)
  \/ \E p \in Procs : LoadSceneConfigDone(p)
  \/ \E p \in Procs : LoadSceneDissolveDone(p)
  \/ \E p \in Procs : LoadSceneClearAbandon(p)

NextLive ==
  \/ LoadScenePrefixRetry \/ RevealActiveScene
  \/ LazyLoading \/ LazyToggles
  \/ ExclusiveLoading \/ ExclusiveToggles
  \/ EagerLoading \/ EagerToggles

\* the three SceneManagers while in use (no dispose), with every awaited
\* promise settling in the end
SpecLiveFair == Init /\ [][NextLive]_vars /\ WF_vars(Settling)

\* a scene with two assets to preload, the last of which does not load
PreloadSceneArgs == {"e", "b"}

NextPreload ==
  \/ \E p \in Procs, s \in PreloadSceneArgs : CallLoadScene(p, s)
  \/ \E p \in Procs : LoadSceneConfigDone(p)
  \/ \E p \in Procs : LoadSceneDissolveDone(p)
  \/ \E p \in Procs : LoadSceneClearAbandon(p)
  \/ \E p \in Procs : LoadSceneClearDoneLazy(p)
  \/ \E k \in 1..(3 * MaxCalls) : LoadSettle(k)
  \/ \E p \in Procs : LoadSceneFirstDone(p)
  \/ \E p \in Procs : PreloadStep(p)
  \/ LazyToggles \/ Disposal

\* the lazy SceneManager over scenes with more than one asset to preload
SpecPreload == InitLazy /\ [][NextPreload]_vars

NextLazyLive == LoadScenePrefixRetry \/ LazyLoading \/ LazyToggles

\* the lazy SceneManager while in use (no dispose), with every awaited promise
\* settling in the end
SpecLazyLiveFair == InitLazy /\ [][NextLazyLive]_vars /\ WF_vars(Settling)

Next == NextLazy \/ NextExclusive \/ NextEager

Spec == Init /\ [][Next]_vars

\* ------------------------------------------------------------- properties
\* scenes whose assets all load
LoadableScenes == {s \in ValidScenes : \A i \in DOMAIN Assets(s) : Assets(s)[i] \notin Broken}

Resolved(p) == calls[p].pc = "done"

Rejected(p) == Resolved(p) /\ calls[p].res \in {"errConfig", "errAssets", "err"}

\* call p was issued while the call before it was still pending
Overlapping(p) == calls[p].ov

\* the only calls issued are loadScene (call 1) and, before it resolved,
\* loadScene (call 2), both of loadable scenes, and both have resolved
TwoLoadsResolved ==
  /\ calls[1].kind = "loadScene" /\ calls[2].kind = "loadScene"
  /\ calls[1].scene \in LoadableScenes /\ calls[2].scene \in LoadableScenes
  /\ Overlapping(2)
  /\ Resolved(1) /\ Resolved(2)
  /\ \A r \in Procs \ {1, 2} : calls[r].pc = "idle"

\* C1: loadScene(a) then loadScene(b) before a resolved, nothing else issued:
\* once both have resolved the active configuration is b's, every tracked
\* handle and item is one of b, nothing of a is left in the manager or in the
\* renderer, and neither call rejected
C1_LastLoadSceneWins ==
  TwoLoadsResolved =>
    LET b == calls[2].scene
    IN /\ activeConfig = b
       /\ \A i \in DOMAIN activeHandles : activeHandles[i].scene = b
       /\ \A id \in DOMAIN handleById : handleById[id].scene = b
       /\ \A i \in DOMAIN items : items[i].id \in Range(Assets(b))
       /\ \A i \in DOMAIN rHandles : rHandles[i].scene = b
       /\ \A id \in DOMAIN loadingById : loads[loadingById[id]].scene = b
       /\ ~Rejected(1) /\ ~Rejected(2)

\* C1 witness: a then b, overlapping, both resolved and all of b loaded
C1_Witness ==
  /\ TwoLoadsResolved
  /\ calls[1].scene = "a" /\ calls[2].scene = "b"
  /\ Len(activeHandles) = Len(Assets("b"))
  /\ Len(rHandles) = Len(Assets("b"))

\* call p is suspended at an await it entered with a captured version
HoldsVersion(p) ==
  calls[p].pc \in {"cfg", "dissolve", "clear", "first", "splats", "show", "hide", "xout", "xin"}

\* this step is call p resuming after its await with a version that has moved
StaleCallResumes(p) ==
  HoldsVersion(p) /\ calls[p].ver # opVersion /\ calls'[p] # calls[p]

\* this step is the preload loop of call p resuming with a version that has moved
StalePreloadResumes(p) ==
  pre[p].st = "wait" /\ calls[p].ver # opVersion /\ pre'[p] # pre[p]

\* this step is the body of load promise k resuming with a version that has moved
StaleLoadResumes(k) ==
  /\ k \in DOMAIN loads /\ k \in DOMAIN loads'
  /\ loads[k].st = "pending" /\ loads'[k].st # "pending"
  /\ loads[k].ver # opVersion

\* the step made one of these collaborator calls
Issued(tags) == \E i \in DOMAIN out' : out'[i].t \in tags

\* the step left the manager's shared state alone and asked nothing of the
\* renderer or the reveal controller that changes what is shown
NoSharedMutation ==
  /\ activeConfig' = activeConfig
  /\ handleById' = handleById
  /\ activeHandles' = activeHandles
  /\ itemsGen' = itemsGen /\ itemStore'[itemsGen'] = itemStore[itemsGen]
  /\ ~Issued({"clear", "revealOut", "setVisibleT", "setVisibleF"})

\* C2: a continuation of loadScene, of a toggle or of the background preload
\* that resumes with a captured version different from opVersion changes none
\* of activeConfig, items, handleById, activeHandles, issues no renderer
\* clear, reveal-out or setVisible, and does not throw
C2_StaleContinuationsInert ==
  [][ /\ \A p \in Procs :
           StaleCallResumes(p) => NoSharedMutation /\ ~Rejected(p)'
      /\ \A p \in Procs : StalePreloadResumes(p) => NoSharedMutation
      /\ \A k \in 1..(2 * MaxCalls) : StaleLoadResumes(k) => NoSharedMutation ]_vars

\* this step is loadScene call p resolving (not rejecting) although a later
\* operation has moved opVersion past the version it captured
SupersededLoadSceneResolves(p) ==
  /\ calls[p].kind = "loadScene" /\ calls[p].pc # "done"
  /\ calls[p].ver # opVersion
  /\ Resolved(p)' /\ ~Rejected(p)'

\* C3: a superseded loadScene resolves with the manager's active
\* configuration (where there is one) instead of the one it was loading, does
\* not set activeConfig and emits no ready event
C3_SupersededLoadSceneYields ==
  [][ \A p \in Procs :
        SupersededLoadSceneResolves(p) =>
          /\ activeConfig' = activeConfig
          /\ activeConfig' # "none" => calls'[p].res = activeConfig'
          /\ ~Issued({"ready"}) ]_vars

\* this step is call p being issued as a loadScene
LoadSceneStarts(p) == calls[p].pc = "idle" /\ calls'[p].kind = "loadScene"

\* this step takes the toggle p past its no-op checks: it starts to change
\* what is shown
ToggleStartsChange(p) ==
  /\ calls[p].pc \in {"idle", "tload"}
  /\ calls'[p].pc \in {"show", "hide", "xout", "xin"}

\* C4: opVersion never decreases in any step (dispose and failed operations
\* included), and it strictly increases in the step that starts a loadScene
\* and in the step in which a toggle starts to change state
C4_VersionMonotonic ==
  [][ /\ opVersion' >= opVersion
      /\ \A p \in Procs :
           LoadSceneStarts(p) \/ ToggleStartsChange(p) => opVersion' > opVersion ]_vars

\* C4 witness: a loadScene, a state-changing toggle and a dispose have run,
\* the dispose has settled, and the counter stands at 2
C4_Witness ==
  /\ opVersion = 2
  /\ \E p \in Procs : calls[p].kind = "loadScene" /\ Resolved(p)
  /\ \E p \in Procs : calls[p].kind \in {"toggle", "activate"} /\ calls[p].ver = 2
  /\ \E p \in Procs : calls[p].kind = "dispose" /\ Resolved(p)

\* the ids of the items whose visible/active flag is set, as getSplatItems
\* reports them
ActiveIds(its) == {its[i].id : i \in {j \in DOMAIN its : its[j].visible}}

\* exactly one item of its is active and it is id
OnlyActive(its, id) ==
  /\ ActiveIds(its) = {id}
  /\ Cardinality({j \in DOMAIN its : its[j].visible}) = 1

\* this step is activateSplat call p resolving with true
ActivateResolvesTrue(p) ==
  /\ calls'[p].kind = "activate" /\ calls[p].pc # "done"
  /\ Resolved(p)' /\ calls'[p].res = "T"

\* C5: whenever activateSplat(id) resolves with true, exactly one item of
\* getSplatItems() is active and it is id, whatever other activateSplat and
\* loadScene calls are interleaved with it
C5_ExclusiveActive ==
  [][ \A p \in Procs :
        ActivateResolvesTrue(p) => OnlyActive(getSplatItems', calls'[p].id) ]_vars

\* C5 witness: an activateSplat issued while the call before it was pending
\* went through its reveal and resolved true, and its id is the one active item
C5_Witness ==
  \E p \in Procs :
    /\ calls[p].kind = "activate" /\ Resolved(p) /\ calls[p].res = "T"
    /\ calls[p].ver > 0 /\ Overlapping(p)
    /\ OnlyActive(getSplatItems, calls[p].id)

\* the load promises that some caller of ensureHandleLoaded is awaiting: a
\* loadScene or a toggle suspended on it, or a preload loop
AwaitedLoads ==
  {calls[p].wait : p \in {q \in Procs : calls[q].pc \in {"first", "tload"}}}
    \cup {pre[p].wait : p \in {q \in Procs : pre[q].st = "wait"}}

\* C6: requests for the same asset id that overlap (each still waiting for its
\* load to settle) wait for one and the same renderer.loadSplat call
C6_LoadDeduplicated ==
  \A k1, k2 \in AwaitedLoads :
    /\ loads[k1].st = "pending" /\ loads[k2].st = "pending"
    /\ loads[k1].id = loads[k2].id
    => k1 = k2

\* no call is in progress (so no toggle and none of their reveal animations)
\* and no load is in flight
Quiescent ==
  /\ \A p \in Procs : calls[p].pc \in {"idle", "done"} /\ pre[p].st # "wait"
  /\ \A k \in DOMAIN loads : loads[k].st # "pending"

\* the manager tracks a loaded handle for this id
HasLoadedHandle(id) ==
  IF variant = "eager" THEN FindIdx(activeHandles, id) # 0 ELSE id \in DOMAIN handleById

\* the renderer holds an object for this id (the one setVisible acts on)
RendererHolds(id) == FindIdx(rHandles, id) # 0

\* object3D.visible of that object: the last setVisible value, or the
\* load-time value
RendererVisible(id) == rHandles[FindIdx(rHandles, id)].visible

\* C7: when no toggle or reveal is in progress, every item with a loaded
\* handle has its visible/active flag equal to the visibility the renderer
\* holds for that id
C7_VisibilityConsistent ==
  Quiescent =>
    \A i \in DOMAIN items :
      HasLoadedHandle(items[i].id) /\ RendererHolds(items[i].id)
        => items[i].visible = RendererVisible(items[i].id)

\* call p is setSplatVisible(id, want), it found its handle loaded, and it
\* has resolved
ToggleResolved(p, id, want) ==
  /\ calls[p].kind = "toggle" /\ calls[p].id = id /\ calls[p].want = want
  /\ calls[p].wait = 0
  /\ Resolved(p)

\* scene 'a' (x shown, y hidden) was loaded by call 1; then, with both assets
\* loaded, setSplatVisible('y', true) was called and, before it settled,
\* setSplatVisible('x', false); nothing else was called; both have resolved
ShowThenHideOther ==
  /\ calls[1].kind = "loadScene" /\ calls[1].scene = "a" /\ Resolved(1)
  /\ ToggleResolved(2, "y", TRUE) /\ ~Overlapping(2) /\ calls[2].ver > 0
  /\ ToggleResolved(3, "x", FALSE) /\ Overlapping(3)
  /\ \A r \in Procs \ {1, 2, 3} : calls[r].pc = "idle"

\* C8: independent toggles, x visible and y hidden, both loaded: show y and
\* then, before that settles, hide x. After both resolve x is hidden and y is
\* shown, in the items and in the renderer
C8_ShowThenHideOtherConverges ==
  ShowThenHideOther =>
    /\ ~ItemOf(itemsGen, "x").visible /\ ItemOf(itemsGen, "y").visible
    /\ RendererHolds("x") /\ ~RendererVisible("x")
    /\ RendererHolds("y") /\ RendererVisible("y")

\* C8 witness: the two overlapping toggles have resolved, true and false
C8_Witness ==
  /\ ShowThenHideOther
  /\ calls[2].res = "T" /\ calls[3].res = "F"
  /\ HasItem(itemsGen, "x") /\ HasItem(itemsGen, "y")

\* scene 'a' was loaded by call 1; then a toggle of a loaded asset that
\* changes its state was called (call 2) and, before it settled, the opposite
\* toggle of the same asset (call 3); nothing else was called; both resolved
TwoTogglesSameAsset ==
  /\ calls[1].kind = "loadScene" /\ calls[1].scene = "a" /\ Resolved(1)
  /\ \E id \in ToggleIds, want \in BOOLEAN :
       /\ ToggleResolved(2, id, want) /\ ~Overlapping(2) /\ calls[2].ver > 0
       /\ ToggleResolved(3, id, ~want) /\ Overlapping(3)
  /\ \A r \in Procs \ {1, 2, 3} : calls[r].pc = "idle"

\* C9: two toggles of one asset, the second issued before the first settled
\* (hide then show, or show then hide): after both resolve the item's flag and
\* the renderer's visibility are what the second call asked for
C9_LastToggleWins ==
  TwoTogglesSameAsset =>
    /\ ItemOf(itemsGen, calls[3].id).visible = calls[3].want
    /\ RendererHolds(calls[3].id) /\ RendererVisible(calls[3].id) = calls[3].want

\* this step is the toggle p resuming after its awaited reveal although its
\* captured version is no longer opVersion
StaleToggleResumes(p) ==
  /\ calls[p].kind \in {"toggle", "activate"}
  /\ calls[p].pc \in {"show", "hide", "xout", "xin"}
  /\ calls[p].ver # opVersion
  /\ calls'[p] # calls[p]

\* C10: a toggle that finds itself superseded when its awaited reveal
\* completes changes no visibility in the items or in the renderer, and where
\* it returns, the boolean it returns is the recorded visible/active flag of
\* its id at that moment
C10_StaleToggleReportsRecordedFlag ==
  [][ \A p \in Procs :
        StaleToggleResumes(p) =>
          /\ itemsGen' = itemsGen /\ itemStore'[itemsGen'] = itemStore[itemsGen]
          /\ rHandles' = rHandles
          /\ (Resolved(p)' /\ HasItem(itemsGen, calls[p].id)) =>
               calls'[p].res = BoolRes(ItemOf(itemsGen, calls[p].id).visible) ]_vars

\* this step is call p being issued as a toggle (setSplatVisible or
\* activateSplat)
ToggleIssued(p) == calls[p].pc = "idle" /\ calls'[p].kind \in {"toggle", "activate"}

\* the item of the id the toggle p is issued for already has the flag asked for
AlreadyAsAsked(p) ==
  /\ HasItem(itemsGen, calls'[p].id)
  /\ ItemOf(itemsGen, calls'[p].id).visible = calls'[p].want

RendererCalls == {"loadSplat", "setVisibleT", "setVisibleF", "revealStart", "revealIn",
                  "revealOut"}

\* C11: setSplatVisible(id, v) on an asset whose item already has visible = v
\* (activateSplat(id) on the asset whose item is already active) returns v in
\* the calling step, leaves opVersion and the items as they are and makes no
\* renderer call: no load, no setVisible, no reveal
C11_IdempotentToggle ==
  [][ \A p \in Procs :
        ToggleIssued(p) /\ AlreadyAsAsked(p) =>
          /\ Resolved(p)' /\ calls'[p].res = BoolRes(calls'[p].want)
          /\ opVersion' = opVersion
          /\ itemsGen' = itemsGen /\ itemStore'[itemsGen'] = itemStore[itemsGen]
          /\ ~Issued(RendererCalls) ]_vars

\* the last load of asset id failed and none is in flight for it
LoadFailed(id) ==
  /\ id \notin DOMAIN loadingById
  /\ \E k \in DOMAIN loads : loads[k].id = id /\ loads[k].st = "null"

\* loadScene (call 1) of a scene with an asset that does not load has
\* resolved, the load of that asset has failed, every other asset of the scene
\* has loaded into a tracked handle, and only setSplatVisible was called since
IsolatedFailure ==
  /\ calls[1].kind = "loadScene" /\ Resolved(1) /\ calls[1].res = calls[1].scene
  /\ \A q \in Procs \ {1} : calls[q].kind \in {"none", "toggle"}
  /\ \E id \in Range(Assets(calls[1].scene)) : id \in Broken
  /\ \A id \in Range(Assets(calls[1].scene)) :
       IF id \in Broken THEN LoadFailed(id) ELSE id \in DOMAIN handleById

\* getSplatItems() reports the failed asset and the loaded ones
ItemsReportFailure ==
  /\ Len(items) = Len(Assets(calls[1].scene))
  /\ \A i \in DOMAIN items :
       /\ items[i].id = Assets(calls[1].scene)[i]
       /\ items[i].loaded = (items[i].id \notin Broken)
       /\ items[i].failed = (items[i].id \in Broken)

ItemVisibleIn(its, id) == FindIdx(its, id) # 0 /\ its[FindIdx(its, id)].visible

RendererVisibleIn(rh, id) == FindIdx(rh, id) # 0 /\ rh[FindIdx(rh, id)].visible

\* this step is setSplatVisible(id, want) called for a loaded asset while
\* nothing is in flight, and it takes effect: a no-op returns want, a show
\* shows at once, a hide starts its reveal-out
ToggleTakesEffect(p) ==
  LET id   == calls'[p].id
      want == calls'[p].want
  IN IF ItemVisibleIn(items, id) = want
       THEN Resolved(p)' /\ calls'[p].res = BoolRes(want)
     ELSE IF want
       THEN /\ calls'[p].pc = "show"
            /\ ItemVisibleIn(itemStore'[itemsGen'], id)
            /\ RendererVisibleIn(rHandles', id)
     ELSE calls'[p].pc = "hide"

\* this step is the hide p completing its reveal-out unsuperseded, and the
\* asset is hidden in the items and in the renderer
HideCompletes(p) ==
  /\ Resolved(p)' /\ calls'[p].res = "F"
  /\ ~ItemVisibleIn(itemStore'[itemsGen'], calls[p].id)
  /\ ~RendererVisibleIn(rHandles', calls[p].id)

\* C12: when the load of one asset fails while the others of the scene load
\* and nothing supersedes the loads, getSplatItems() reports the failed asset
\* with loaded=false, failed=true and every other asset with loaded=true,
\* failed=false, and setSplatVisible on another asset still changes its
\* visibility as asked
C12_FailureIsolated ==
  /\ [](IsolatedFailure => ItemsReportFailure)
  /\ [][ \A p \in Procs :
           /\ (/\ IsolatedFailure /\ Quiescent /\ ToggleIssued(p)
               /\ calls'[p].id \in Range(Assets(calls[1].scene)) \ Broken)
                => ToggleTakesEffect(p)
           /\ (/\ IsolatedFailure /\ calls[p].pc = "hide" /\ calls[p].ver = opVersion
               /\ calls'[p] # calls[p])
                => HideCompletes(p) ]_vars

\* C12 witness: the first asset of scene 'd' failed, 'y' loaded, and
\* setSplatVisible('y', true) has shown y
C12_Witness ==
  /\ IsolatedFailure /\ ItemsReportFailure
  /\ calls[1].scene = "d"
  /\ calls[2].kind = "toggle" /\ calls[2].id = "y" /\ calls[2].want
  /\ Resolved(2) /\ calls[2].res = "T" /\ calls[2].ver > 0
  /\ ItemVisibleIn(items, "y") /\ RendererVisibleIn(rHandles, "y")

\* this step is loadScene call p resuming after the renderer failed to load
\* an asset it waits for: the batch of the load-all variants, or the first
\* asset of the load-first variant when its file does not load
RequiredLoadFailed(p) ==
  /\ calls[p].kind = "loadScene" /\ calls'[p] # calls[p]
  /\ \/ calls[p].pc = "splats" /\ SplatsFail(p)
     \/ /\ calls[p].pc = "first"
        /\ loads[calls[p].wait].st = "null" /\ loads[calls[p].wait].id \in Broken

\* the message of the renderer's Error in that step
UnderlyingMessage(p) ==
  IF calls[p].pc = "splats"
    THEN LoadSplatsMessage(Assets(calls[p].scene), calls[p].queued)
    ELSE AssetLoadErrorMessage(<<loads[calls[p].wait].id>>)

\* C13: when the renderer fails to load a required asset during loadScene,
\* loadScene rejects with a SceneLoadError whose details contain the renderer's
\* message; it does not resolve, does not make the new configuration active
\* and emits no ready
C13_RequiredAssetFailureRejects ==
  [][ \A p \in Procs :
        RequiredLoadFailed(p) =>
          /\ Rejected(p)'
          /\ calls'[p].err.name = "SceneLoadError"
          /\ UnderlyingMessage(p) \in Range(calls'[p].err.details)
          /\ activeConfig' = activeConfig
          /\ ~Issued({"ready"}) ]_vars

\* this step is one of loadScene call p for the scene whose configuration
\* does not load: the call itself, or its rejection
ConfigFailureStep(p) ==
  /\ calls'[p].kind = "loadScene" /\ calls'[p].scene = BadScene
  /\ calls'[p] # calls[p]

\* C14: when configuration loading fails, loadScene rejects and leaves
\* activeConfig, the items, handleById, activeHandles and what the renderer has
\* loaded as they were; no reveal-out and no clear is performed
C14_ConfigFailureLeavesState ==
  [][ \A p \in Procs :
        ConfigFailureStep(p) =>
          /\ calls[p].pc = "cfg" => Rejected(p)' /\ calls'[p].res = "errConfig"
          /\ activeConfig' = activeConfig
          /\ itemsGen' = itemsGen /\ itemStore'[itemsGen'] = itemStore[itemsGen]
          /\ handleById' = handleById /\ activeHandles' = activeHandles
          /\ rHandles' = rHandles /\ rSceneIdOrder' = rSceneIdOrder
          /\ ~Issued({"revealOut", "clear"}) ]_vars

\* C14 witness: with a scene active and its handles loaded, a loadScene whose
\* configuration fails has rejected and the scene is still active
C14_Witness ==
  \E p \in Procs :
    /\ calls[p].kind = "loadScene" /\ calls[p].scene = BadScene
    /\ Rejected(p) /\ calls[p].res = "errConfig"
    /\ activeConfig \in ValidScenes
    /\ Len(activeHandles) > 0 /\ Len(rHandles) > 0 /\ Len(items) > 0

\* C15: when the configuration fails schema validation, the error loadScene
\* throws carries the validator's list of detail strings: its details equal
\* the validator's errors, and are not empty when the validator reported any
C15_ConfigErrorDetailsCarried ==
  \A p \in Procs :
    calls[p].kind = "loadScene" /\ Resolved(p) /\ calls[p].res = "errConfig" =>
      LET v == validateSceneConfig(RawOf(calls[p].scene))
      IN /\ calls[p].err.details = v.errors
         /\ Len(v.errors) > 0 => Len(calls[p].err.details) > 0

\* call d is a dispose() that has resolved; every call before it was a
\* loadScene that had resolved when dispose was called; since then at most one
\* call was issued: a loadScene of a loadable scene, after dispose resolved
DisposedThenLoad(d) ==
  /\ calls[d].kind = "dispose" /\ Resolved(d) /\ ~Overlapping(d)
  /\ \A q \in 1..(d - 1) : calls[q].kind = "loadScene" /\ Resolved(q)
  /\ d + 1 \in Procs
  /\ \/ calls[d + 1].pc = "idle"
     \/ /\ calls[d + 1].kind = "loadScene" /\ calls[d + 1].scene \in LoadableScenes
        /\ ~Overlapping(d + 1)
  /\ \A r \in Procs : r > d + 1 => calls[r].pc = "idle"

\* C16: after dispose() has resolved getSplatItems() is empty, and a loadScene
\* issued afterwards for a loadable scene resolves (does not reject) with that
\* configuration active and with items and handles of that scene only
C16_DisposeThenLoadSucceeds ==
  \A d \in {1, 2} :
    DisposedThenLoad(d) =>
      LET s == calls[d + 1].scene
      IN /\ calls[d + 1].pc = "idle" => getSplatItems = <<>>
         /\ Resolved(d + 1) =>
              /\ ~Rejected(d + 1) /\ calls[d + 1].res = s
              /\ activeConfig = s
              /\ \A i \in DOMAIN items : items[i].id \in Range(Assets(s))
              /\ \A i \in DOMAIN activeHandles : activeHandles[i].scene = s
              /\ \A id \in DOMAIN handleById : handleById[id].scene = s

\* loadScene call p, for a scene whose assets load, is in progress
LoadInProgress(p) ==
  /\ calls[p].kind = "loadScene" /\ calls[p].scene \in LoadableScenes
  /\ ~Resolved(p)

\* a later operation has moved opVersion past the version call p captured
Superseded(p) == calls[p].ver # opVersion

\* call p has just resolved with its configuration, which is the active one,
\* and ready was emitted for it
LoadedAndReady(p) ==
  /\ Resolved(p) /\ calls[p].res = calls[p].scene
  /\ activeConfig = calls[p].scene
  /\ \E i \in DOMAIN out : out[i] = Ev("ready", calls[p].scene, p)

\* C17: from every reachable state of a manager in use, after a configuration
\* failure or an asset-load failure too, a loadScene of a valid scene whose
\* assets load, if it is not superseded, eventually resolves with its
\* configuration active and ready emitted
C17_RetryEventuallyLoads ==
  \A p \in Procs : LoadInProgress(p) ~> (LoadedAndReady(p) \/ Superseded(p))

\* C17 witness: after a loadScene rejected for its configuration and another
\* one for its assets, a third loadScene has resolved, active and ready
C17_Witness ==
  /\ calls[1].kind = "loadScene" /\ calls[1].res = "errConfig"
  /\ calls[2].kind = "loadScene" /\ calls[2].res = "errAssets"
  /\ calls[3].kind = "loadScene" /\ calls[3].scene \in LoadableScenes
  /\ LoadedAndReady(3) /\ ~Superseded(3)

\* this step is loadScene call p resolving with its own configuration while
\* no later operation has moved opVersion
LoadSceneResolvesUnsuperseded(p) ==
  /\ calls[p].kind = "loadScene" /\ ~Resolved(p) /\ calls[p].ver = opVersion
  /\ Resolved(p)' /\ ~Rejected(p)' /\ calls'[p].res = calls[p].scene

\* one item per asset of scene s, in declared order, the first one
\* visible/active and no other
ItemsOfScene(its, s) ==
  /\ Len(its) = Len(Assets(s))
  /\ \A i \in DOMAIN its : its[i].id = Assets(s)[i] /\ its[i].visible = (i = 1)

\* this step settles a load of asset id
LoadOfSettles(id) ==
  \E k \in DOMAIN loads :
    loads[k].id = id /\ loads[k].st = "pending" /\ loads'[k].st # "pending"

\* C18: when loadScene resolves successfully and unsuperseded, getSplatItems()
\* holds one item per asset of the configuration, in declared order, the first
\* visible/active and every other one not; in the load-first variant the items
\* are created with loaded=false, failed=false and an item's load state changes
\* only when its own load settles
C18_ItemsAfterLoadScene ==
  [][ /\ \A p \in Procs :
           LoadSceneResolvesUnsuperseded(p) =>
             ItemsOfScene(itemStore'[itemsGen'], calls[p].scene)
      /\ variant = "lazy" /\ itemsGen' # itemsGen =>
           \A i \in DOMAIN itemStore'[itemsGen'] :
             ~itemStore'[itemsGen'][i].loaded /\ ~itemStore'[itemsGen'][i].failed
      /\ variant = "lazy" /\ itemsGen' = itemsGen =>
           \A i \in DOMAIN items :
             \/ /\ itemStore'[itemsGen'][i].loaded = items[i].loaded
                /\ itemStore'[itemsGen'][i].failed = items[i].failed
             \/ LoadOfSettles(items[i].id) ]_vars

\* the value validated is an object whose "assets" is an array
HasAssetsArray == validation.raw.isObject /\ validation.raw.assets.isArray

\* C19: validateSceneConfig rejects every configuration whose assets array
\* has more than 5 entries, with an error naming the cap of 5 splats, and never
\* returns ok=true for one
C19_AssetCapEnforced ==
  validation.done /\ HasAssetsArray /\ Len(validation.raw.assets.entries) > MAX_SPLATS =>
    /\ ~validation.result.ok
    /\ "MVP limit exceeded: \"assets\" supports up to 5 splats."
         \in Range(validation.result.errors)

\* every part of the value validated other than reveal's numbers is valid
OtherwiseValid ==
  /\ HasAssetsArray /\ validation.raw.id /\ validation.raw.title
  /\ Len(validation.raw.assets.entries) <= MAX_SPLATS
  /\ \A i \in DOMAIN validation.raw.assets.entries :
       validation.raw.assets.entries[i] = OkEntry(i)
  /\ validation.raw.camera = "ok" /\ validation.raw.ui = "ok"
  /\ validation.raw.transitions = "ok" /\ validation.raw.reveal.kind # "notObject"

\* C19 witness: six well-formed assets in an otherwise valid configuration
\* have been validated and the cap is the one error returned
C19_Witness ==
  /\ validation.done /\ validation.raw.id /\ validation.raw.title
  /\ validation.raw.assets =
       [isArray |-> TRUE, entries |-> [i \in 1..(MAX_SPLATS + 1) |-> OkEntry(i)]]
  /\ validation.raw.camera = "ok" /\ validation.raw.ui = "ok"
  /\ validation.raw.transitions = "ok" /\ validation.raw.reveal.kind = "absent"
  /\ validation.result = Invalid(<<"MVP limit exceeded: \"assets\" supports up to 5 splats.">>)

\* the number given for reveal field f is a number and is not greater than 0
NotGreaterThanZero(f) ==
  /\ validation.raw.reveal.kind = "object"
  /\ TypeofNumber(validation.raw.reveal[f])
  /\ ~GreaterThanZero(validation.raw.reveal[f])

\* C20: validateSceneConfig rejects every otherwise valid configuration whose
\* reveal.durationMs or reveal.band is not greater than 0, with an error naming
\* each offending field; an accepted configuration has both greater than 0
C20_NonPositiveRevealRejected ==
  validation.done /\ OtherwiseValid =>
    /\ NotGreaterThanZero("durationMs") =>
         /\ ~validation.result.ok
         /\ "\"reveal.durationMs\" must be > 0." \in Range(validation.result.errors)
    /\ NotGreaterThanZero("band") =>
         /\ ~validation.result.ok
         /\ "\"reveal.band\" must be > 0." \in Range(validation.result.errors)
    /\ validation.result.ok =>
         /\ validation.result.data.reveal.durationMs > 0
         /\ validation.result.data.reveal.band > 0

\* C20 for finite numbers only: the checks a finite value reaches
C20_FiniteNonPositiveRevealRejected ==
  validation.done /\ OtherwiseValid =>
    /\ NotGreaterThanZero("durationMs") /\ isNumber(validation.raw.reveal.durationMs) =>
         /\ ~validation.result.ok
         /\ "\"reveal.durationMs\" must be > 0." \in Range(validation.result.errors)
    /\ NotGreaterThanZero("band") /\ isNumber(validation.raw.reveal.band) =>
         /\ ~validation.result.ok
         /\ "\"reveal.band\" must be > 0." \in Range(validation.result.errors)
    /\ validation.result.ok =>
         /\ validation.result.data.reveal.durationMs > 0
         /\ validation.result.data.reveal.band > 0

\* C21: every configuration validateSceneConfig accepts has pairwise
\* distinct asset ids; one in which two assets share an id is rejected
C21_AcceptedIdsDistinct ==
  validation.done /\ validation.result.ok =>
    \A i, j \in DOMAIN validation.result.data.assets :
      i # j => validation.result.data.assets[i].id # validation.result.data.assets[j].id

\* this step is call p asking renderer.loadSplats for a batch holding an
\* asset of an unsupported format
LoadSplatsUnsupported(p) ==
  /\ calls[p].pc = "idle" /\ calls'[p].kind = "loadSplats"
  /\ \E i \in DOMAIN BatchAssets(calls'[p].scene) :
       Unsupported(BatchAssets(calls'[p].scene)[i])

\* no load of call p is in the mutation queue
NoViewerLoadQueued(p) == \A i \in DOMAIN rq : rq[i] # Req("rload", p)

RevealResolves == anim.st = "running" /\ anim'.st = "resolved"

\* C23: with policy.enabled, the last plane applied to the handle before
\* revealIn resolves is bounds.maxY + endPadding, before revealOut resolves it
\* is bounds.minY + startPadding, and the animation applies no parameters after
\* it has resolved
C23_RevealConverges ==
  [][/\ RevealResolves /\ anim.policy.enabled =>
          /\ anim'.applied.set /\ anim'.applied.enabled
          /\ anim.dir = "in" =>
               anim'.applied.revealY = 1000 * (anim.bounds.maxY + anim.policy.endPadding)
          /\ anim.dir = "out" =>
               anim'.applied.revealY = 1000 * (anim.bounds.minY + anim.policy.startPadding)
     /\ anim.st = "resolved" /\ anim'.n = anim.n => anim'.applied = anim.applied]_vars

\* C23 witness: an eased revealOut with both paddings took three frames and
\* resolved with the plane at minY + startPadding
C23_Witness ==
  /\ anim.st = "resolved" /\ anim.dir = "out" /\ anim.frames = 3
  /\ anim.policy.enabled /\ anim.policy.ease = "easeInOut"
  /\ anim.policy.startPadding = 1 /\ anim.policy.endPadding = 1
  /\ anim.bounds = [minY |-> 1, maxY |-> 3]
  /\ anim.applied = Params(TRUE, 2000)

\* this step settles the load promise k
LoadSettles(k) == k \in DOMAIN loads /\ loads[k].st = "pending" /\ loads'[k].st # "pending"

\* the in-flight map holds load k under its id
InFlight(lds, lmap, k) == lds[k].id \in DOMAIN lmap /\ lmap[lds[k].id] = k

\* C24: an id has an entry in the in-flight map exactly while a load of it
\* started for the current scene is unsettled: an entry names an unsettled load
\* of its id, a load is entered when it starts and stays entered until it
\* settles or the scene is replaced, its entry is gone once it has settled, and
\* the settlement of one load never removes the entry of another load
C24_InFlightBookkeeping ==
  [][/\ \A id \in DOMAIN loadingById' :
          /\ loadingById'[id] \in DOMAIN loads'
          /\ loads'[loadingById'[id]].id = id
          /\ loads'[loadingById'[id]].st = "pending"
     /\ \A k \in DOMAIN loads' : k \notin DOMAIN loads => InFlight(loads', loadingById', k)
     /\ \A k \in DOMAIN loads :
          /\ InFlight(loads, loadingById, k) /\ ~LoadSettles(k) /\ itemsGen' = itemsGen =>
               InFlight(loads, loadingById', k)
          /\ LoadSettles(k) =>
               /\ ~InFlight(loads, loadingById', k)
               /\ \A j \in DOMAIN loads :
                    j # k /\ InFlight(loads, loadingById, j) => InFlight(loads, loadingById', j)]_vars

\* C25: renderer.setVisible(id, true) is never issued for a handle before
\* setRevealBounds and setRevealParams, with the plane parked at the start of
\* the sweep, have been applied to that handle for the show
C25_AttachBeforeShow ==
  \A i \in DOMAIN out :
    out[i].t = "setVisibleT" =>
      \E j \in 1..(i - 1) : out[j].t = "revealStart" /\ out[j].n = out[i].n

\* handle h, shown by the renderer for an item listed as visible, is hidden or
\* removed by this step
HiddenNow(h) ==
  /\ h.visible
  /\ ItemVisibleIn(items, h.id)
  /\ \A i \in DOMAIN rHandles' : rHandles'[i].hid = h.hid => ~rHandles'[i].visible

\* C26: an asset visible in the renderer is hidden (setVisible(id, false), or
\* removal by clear on scene replacement) only after a revealOut on its handle
\* has been started and has resolved
C26_RevealOutBeforeHide ==
  [][\A i \in DOMAIN rHandles :
       HiddenNow(rHandles[i]) /\ ~Issued({"dispose"}) => rHandles[i].hid \in SweptOut]_vars

\* call p invokes renderer.clear() in this step
ClearInvokedBy(p) == \E j \in DOMAIN out' : out'[j] = Ev("clear", "", p)

\* the reveal-outs this step starts, as pairs of policy and handle
RevealOutsStarted ==
  {<<out'[j].id, out'[j].n>> : j \in {k \in DOMAIN out' : out'[k].t = "revealOut"}}

\* loadScene call p leaves the await of loadSceneConfig with a configuration
\* while the manager tracks handles
ReplacesTracked(p) ==
  /\ calls[p].kind = "loadScene" /\ calls[p].pc = "cfg" /\ calls'[p].pc # "cfg"
  /\ loadSceneConfig(calls[p].scene).ok
  /\ Len(activeHandles) > 0

PreloadRuns(p) == pre'[p] # pre[p]

\* the loads this step asks the renderer for
LoadsRequested == {j \in DOMAIN out' : out'[j].t = "loadSplat"}

\* C28: the background preload requests the non-first assets strictly in
\* configuration order, one at a time, and starts no further load once
\* opVersion differs from the version its loadScene call captured
C28_PreloadInOrder ==
  [][\A p \in Procs : PreloadRuns(p) =>
       /\ pre[p].st = "wait" => loads[pre[p].wait].st # "pending"
       /\ calls[p].ver # opVersion => LoadsRequested = {} /\ pre'[p].st = "end"
       /\ LoadsRequested # {} =>
            /\ Cardinality(LoadsRequested) = 1
            /\ pre'[p].st = "wait" /\ pre'[p].j >= 2 /\ pre'[p].j > pre[p].j
            /\ \A j \in LoadsRequested :
                 /\ out'[j].id = Assets(calls[p].scene)[pre'[p].j]
                 /\ out'[j].n = pre'[p].wait
                 /\ loads'[out'[j].n].st = "pending"
            /\ \A i \in 2..(pre'[p].j - 1) :
                 i > pre[p].j => Assets(calls[p].scene)[i] \in DOMAIN handleById]_vars

\* the preload of a scene with three assets has asked for the third one after
\* the load of the second one settled
C28_Witness ==
  \E p \in Procs :
    /\ pre[p].st = "wait" /\ pre[p].j = 3
    /\ \E j \in DOMAIN out : out[j] = Ev("loadSplat", Assets(calls[p].scene)[3], pre[p].wait)
    /\ \E k \in DOMAIN loads : loads[k].id = Assets(calls[p].scene)[2] /\ loads[k].st # "pending"

\* toggle call p resolves in this step
ToggleResolves(p) ==
  calls[p].kind = "toggle" /\ calls[p].pc # "done" /\ calls'[p].pc = "done"

\* this step changes the visible (active) flag of an item of list g
VisibleFlagChanges(g) ==
  /\ g \in DOMAIN itemStore /\ g \in DOMAIN itemStore'
  /\ \E i \in DOMAIN itemStore[g] :
       i \in DOMAIN itemStore'[g] /\ itemStore'[g][i].visible # itemStore[g][i].visible

\* C29: a toggle that changes an item's visible/active flag is followed, before
\* its promise resolves, by an onItemsChanged event with the updated list; here
\* for the change a toggle makes in the step in which it resolves
C29_ItemsChangedAfterToggle ==
  [][\A p \in Procs :
       ToggleResolves(p) /\ VisibleFlagChanges(calls[p].gen) => Issued({"items"})]_vars

\* the place of an event in the sequence of a loadScene call, 0 for the
\* collaborator calls and events that are not part of it
EventRank(e) ==
  CASE e.t = "loading" /\ e.id = "configuration" -> 1
    [] e.t = "loading" /\ e.id = "dissolving"    -> 2
    [] e.t = "loading" /\ e.id = "assets"        -> 3
    [] e.t = "items" /\ e.id \in AllSceneArgs \cup PreloadSceneArgs -> 4
    [] e.t = "ready"                             -> 5
    [] OTHER                                     -> 0

IsEventOf(p, e) == e.n = p /\ EventRank(e) > 0

\* the events loadScene call p emits in this step, in order
EventsOf(p) ==
  LET idx == {j \in DOMAIN out' : IsEventOf(p, out'[j])}
      RECURSIVE Seqd(_)
      Seqd(n) == IF n = 0 THEN <<>>
                 ELSE IF n \in idx THEN Append(Seqd(n - 1), EventRank(out'[n]))
                 ELSE Seqd(n - 1)
  IN Seqd(Len(out'))

\* the last event a loadScene call at this point of its body has emitted
EmittedAt(pc) ==
  CASE pc = "idle"     -> 0
    [] pc = "cfg"      -> 1
    [] pc = "dissolve" -> 2
    [] pc = "clear"    -> 3
    [] pc = "splats"   -> 3
    [] pc = "first"    -> 4
    [] OTHER           -> 5

\* C30: the events of a loadScene call occur in the order
\* loading(configuration), optionally loading(dissolving), loading(assets),
\* itemsChanged, ready; ready is emitted at most once, only after activeConfig
\* has been set to the loaded configuration, and no loading event of the call
\* follows its ready
C30_EventOrder ==
  [][\A p \in Procs : calls'[p].kind = "loadScene" =>
       LET evs == EventsOf(p)
       IN /\ \A i \in DOMAIN evs :
               /\ evs[i] > EmittedAt(calls[p].pc)
               /\ i > 1 => evs[i] > evs[i - 1]
               /\ evs[i] <= EmittedAt(calls'[p].pc)
               /\ evs[i] = 2 => Len(activeHandles) > 0
               /\ evs[i] = 3 => EmittedAt(calls[p].pc) \in {1, 2}
               /\ evs[i] = 5 => /\ activeConfig' = calls'[p].scene
                                /\ calls'[p].pc = "done"
                                /\ calls'[p].res = calls'[p].scene
          /\ EmittedAt(calls'[p].pc) >= EmittedAt(calls[p].pc)
          /\ calls[p].pc = "done" => evs = <<>>]_vars

\* a later loadScene call has emitted ready with its configuration active
C30_Witness ==
  \E p \in Procs :
    /\ calls[p].kind = "loadScene" /\ calls[p].pc = "done" /\ calls[p].ver >= 2
    /\ \E j \in DOMAIN out : out[j] = Ev("ready", calls[p].scene, p)
    /\ activeConfig = calls[p].scene

\* no call, load, preload or renderer mutation is in progress
NothingInProgress == Quiescent /\ rq = <<>>

\* this step is a call of revealActiveScene with an active configuration
RevealActiveSceneRuns ==
  /\ calls' = calls /\ pre' = pre /\ loads' = loads
  /\ out' # <<>>
  /\ \A j \in DOMAIN out' : out'[j].t \in {"revealIn", "setVisibleF"} /\ out'[j].id = activeConfig

\* the flag of the item of tracked handle h
ItemFlag(h) == HasItem(itemsGen, h.id) /\ ItemOf(itemsGen, h.id).visible

\* the renderer shows the scene of tracked handle h
ShownIn(rh, h) == \E i \in DOMAIN rh : rh[i].hid = h.hid /\ rh[i].visible

\* C31: after revealActiveScene() with no other operation in progress, for
\* every tracked handle the renderer's visibility equals the item's
\* visible/active flag, revealIn was run only for visible items, and a second
\* revealActiveScene() leaves items and renderer visibility unchanged
C31_RevealActiveSceneSyncs ==
  [][NothingInProgress /\ RevealActiveSceneRuns =>
       /\ \A i \in DOMAIN activeHandles :
            /\ ShownIn(rHandles', activeHandles[i]) = ItemFlag(activeHandles[i])
            /\ (\E j \in DOMAIN out' :
                  out'[j].t = "revealIn" /\ out'[j].n = activeHandles[i].hid)
                 = ItemFlag(activeHandles[i])
       /\ itemStore' = itemStore /\ itemsGen' = itemsGen
       /\ SyncVisible(rHandles', activeHandles, 1) = rHandles']_vars

\* the renderer still holds the scene of every tracked handle
TrackedHandlesLoaded ==
  \A i \in DOMAIN activeHandles : \E j \in DOMAIN rHandles : rHandles[j].hid = activeHandles[i].hid

\* the statement of C31 where the renderer still holds every tracked handle
C31_SyncsLoadedHandles ==
  [][NothingInProgress /\ TrackedHandlesLoaded /\ RevealActiveSceneRuns =>
       /\ \A i \in DOMAIN activeHandles :
            /\ ShownIn(rHandles', activeHandles[i]) = ItemFlag(activeHandles[i])
            /\ (\E j \in DOMAIN out' :
                  out'[j].t = "revealIn" /\ out'[j].n = activeHandles[i].hid)
                 = ItemFlag(activeHandles[i])
       /\ itemStore' = itemStore /\ itemsGen' = itemsGen
       /\ SyncVisible(rHandles', activeHandles, 1) = rHandles']_vars

\* the renderer still holds the scene with handle number hid
LoadedInRenderer(hid) == \E j \in DOMAIN rHandles : rHandles[j].hid = hid

\* the handle the manager keeps for asset id (handleById; the eager manager
\* keeps activeHandles only), NoHandle when it keeps none
TrackedHandle(id) ==
  IF variant = "eager"
    THEN IF FindIdx(activeHandles, id) # 0 THEN activeHandles[FindIdx(activeHandles, id)]
         ELSE NoHandle
  ELSE IF id \in DOMAIN handleById THEN handleById[id] ELSE NoHandle

\* the latest operation is loadScene call p, which rejected with an asset-load
\* error, and nothing else is in progress
RejectedForAssets(p) ==
  /\ calls[p].kind = "loadScene" /\ calls[p].pc = "done" /\ calls[p].res = "errAssets"
  /\ calls[p].ver = opVersion
  /\ NothingInProgress

\* C32: after a loadScene call rejects with an asset-load error, every item
\* reported loaded has a handle that the renderer still holds, activeHandles
\* holds no handle the renderer has cleared, and no in-flight entry remains
C32_ConsistentAfterAssetError ==
  \A p \in Procs : RejectedForAssets(p) =>
    /\ \A i \in DOMAIN items :
         items[i].loaded =>
           /\ TrackedHandle(items[i].id) # NoHandle
           /\ LoadedInRenderer(TrackedHandle(items[i].id).hid)
    /\ \A i \in DOMAIN activeHandles : LoadedInRenderer(activeHandles[i].hid)
    /\ DOMAIN loadingById = {}

\* C33: outside a loadScene call's own clear-and-reload window every handle
\* the manager tracks (handleById, activeHandles) is still loaded in the
\* renderer; here in the states in which nothing is in progress and no call
\* has rejected
C33_TrackedHandlesLive ==
  (NothingInProgress /\ \A p \in Procs : ~Rejected(p)) =>
    /\ \A i \in DOMAIN activeHandles : LoadedInRenderer(activeHandles[i].hid)
    /\ \A id \in DOMAIN handleById : LoadedInRenderer(handleById[id].hid)

\* C34: the renderer holds at most one loaded scene per asset id, and every
\* scene it holds is tracked by the manager; here in the states in which
\* nothing is in progress
C34_NoDuplicateOrOrphanScenes ==
  NothingInProgress =>
    /\ \A i, j \in DOMAIN rHandles : rHandles[i].id = rHandles[j].id => i = j
    /\ \A j \in DOMAIN rHandles : TrackedHandle(rHandles[j].id).hid = rHandles[j].hid

\* loadScene call p has reached ready: it resolved with its configuration,
\* which is the active one
ReachedReady(p) ==
  /\ calls[p].kind = "loadScene" /\ Resolved(p) /\ calls[p].res = calls[p].scene
  /\ activeConfig = calls[p].scene

\* a loadScene was issued after call p
LoadSceneIssuedAfter(p) == \E q \in Procs : q > p /\ calls[q].kind = "loadScene"

\* every item of the list is marked loaded or failed
AllItemsSettled == \A i \in DOMAIN items : items[i].loaded \/ items[i].failed

\* C35: after a loadScene call has reached ready in the load-first manager, if
\* no further loadScene is issued, every asset of the scene eventually has its
\* item marked loaded or failed, also when toggles are issued meanwhile
C35_PreloadCompletes ==
  \A p \in Procs : ReachedReady(p) ~> (AllItemsSettled \/ LoadSceneIssuedAfter(p))


\* call p is setSplatVisible(id, false) that found its item visible and
\* started the reveal-out, call q is setSplatVisible of another id with
\* visible = true that found its item hidden, q was issued while p was
\* pending, and nothing else changed the version or disposed the manager
HideThenShow(p, q) ==
  /\ p < q
  /\ calls[p].kind = "toggle" /\ calls[q].kind = "toggle"
  /\ ~calls[p].want /\ calls[q].want
  /\ calls[p].id # calls[q].id
  /\ calls[p].ver # 0 /\ calls[q].ver = calls[p].ver + 1
  /\ q = p + 1 /\ Overlapping(q)
  /\ opVersion = calls[q].ver
  /\ \A r \in Procs : calls[r].kind # "dispose"

\* C36: when setSplatVisible(a, false) is issued for a visible asset and,
\* before it settles, setSplatVisible(b, true) for a hidden asset b # a, then
\* after both have resolved a is hidden and b is visible, in the items and in
\* the renderer
C36_TogglesDoNotCancel ==
  \A p, q \in Procs :
    (HideThenShow(p, q) /\ Resolved(p) /\ Resolved(q) /\ NothingInProgress)
      => /\ ~ItemVisibleIn(items, calls[p].id)
         /\ ItemVisibleIn(items, calls[q].id)
         /\ ~RendererVisibleIn(rHandles, calls[p].id)
         /\ RendererVisibleIn(rHandles, calls[q].id)


ActiveFlags == Cardinality({j \in DOMAIN items : items[j].visible})

\* C37: in the exclusive variant at most one item is active, currentActiveId
\* is the id of that item, and it is null exactly when no item is active
C37_ExclusivityInvariant ==
  variant = "exclusive" =>
    /\ ActiveFlags <= 1
    /\ currentActiveId = "" <=> ActiveIds(items) = {}
    /\ currentActiveId # "" => ActiveIds(items) = {currentActiveId}


\* dispose() has been called and no loadScene has been issued since
DisposedSince ==
  \E d \in Procs : /\ calls[d].kind = "dispose"
                   /\ \A q \in Procs : q > d => calls[q].kind # "loadScene"

\* this step is the synchronous part of a newly issued call
NewCallStep == \E p \in Procs : calls[p].pc = "idle" /\ calls'[p].pc # "idle"

RendererMethods == {"clear", "loadSplat", "loadSplats", "setVisibleT", "setVisibleF"}

\* C38: once dispose() has been called, and until a new loadScene is issued,
\* no continuation that was already under way re-populates items, handleById
\* or activeHandles, sets activeConfig, emits ready or calls the renderer
C38_DisposeIsFinal ==
  [][(DisposedSince /\ ~NewCallStep)
       => /\ items' = <<>>
          /\ DOMAIN handleById' = {}
          /\ activeHandles' = <<>>
          /\ activeConfig' = activeConfig
          /\ ~Issued(RendererMethods \cup {"ready"})]_vars


\* the runs whose body is executing
Executing == {k \in DOMAIN sm.runs : sm.runs[k].st = "body"}

\* the error of run k comes from its own body: the viewer rejected its own
\* assets, or the renderer was disposed by an earlier run
OwnFailure(k) ==
  \/ sm.runs[k].op = "loadSplats"
       /\ \E i \in DOMAIN BatchAssets(sm.runs[k].b) : BatchAssets(sm.runs[k].b)[i] \in Broken
  \/ \E j \in 1..(k - 1) : sm.runs[j].op = "dispose" /\ sm.runs[j].st = "ok"

\* C39: the queued bodies of loadSplats, clear and dispose never overlap and
\* execute in the order of their requests, sceneGraphMutating is true exactly
\* while one executes (so update() never reaches the viewer meanwhile), and a
\* run that rejects hands its error to its own caller: a later run fails only
\* for a reason of its own and is started once the rejected one has settled
C39_MutationsSerialized ==
  /\ Cardinality(Executing) <= 1
  /\ \A k \in DOMAIN sm.runs :
       sm.runs[k].st # "queued" => \A j \in 1..(k - 1) : Settled(sm.runs[j])
  /\ sm.mutating <=> Executing # {}
  /\ (\E i \in DOMAIN out : out[i].t = "viewerUpdate") => Executing = {}
  /\ \A k \in DOMAIN sm.runs : sm.runs[k].st = "err" => OwnFailure(k)
  /\ \A k \in DOMAIN sm.runs :
       (k > 1 /\ sm.runs[k].st = "queued" /\ sm.runs[k - 1].st = "err") => ENABLED MutStart(k)

\* a load rejected by the viewer, and the load requested after it has run and
\* produced its handle
C39_Witness ==
  /\ Len(sm.runs) >= 2
  /\ sm.runs[1].op = "loadSplats" /\ sm.runs[1].st = "err"
  /\ sm.runs[2].op = "loadSplats" /\ sm.runs[2].st = "ok"
  /\ ~sm.mutating
  /\ Len(rHandles) = 1


\* C40: once every Viewer.loadScene call issued has resolved and nothing is in
\* progress, Viewer.getActiveSceneId() and the Viewer's activeConfig name the
\* configuration the SceneManager holds as active
C40_ViewerFollowsManager ==
  NothingInProgress =>
    /\ vw.activeConfig = activeConfig
    /\ vw.activeSceneId = (IF activeConfig = "none" THEN "" ELSE activeConfig)

====
